---- MODULE Spec2Model ----
(***************************************************************************)
(* The limit order book matching engine of RL-HFT-OrderBook:               *)
(* backend/orderbook.cpp (OrderBook), price_level.hpp (PriceLevel) and     *)
(* backend/order.hpp (Order, Trade).                                       *)
(*                                                                         *)
(* Order cells are named by the identifier of the order they hold; the     *)
(* intrusive list pointers (Order::next, Order::prev, PriceLevel::head,    *)
(* PriceLevel::tail) are identifiers, NULL for nullptr.  An operation of   *)
(* the engine is one action; the engine state it works on is passed        *)
(* through the operators below as one record ("the book").                 *)
(***************************************************************************)
EXTENDS Integers, Sequences, FiniteSets, TLC

(***************************************************************************)
(* Bounds of the model.                                                    *)
(***************************************************************************)
MaxOrders == 3
MaxPrice == 2
MaxQty == 2
DeepOrders == 4
DeepMaxPrice == 1
DeepMaxQty == 1
ZeroOrders == 3
ZeroMaxPrice == 1
ZeroMaxQty == 1
ShortOrders == 2
Subscribers == 2
ThreadOrders == 2
SignedOrders == 2
SignedBelowZero == 2
SignedMaxPrice == 1
SignedMaxQty == 1
WindowTrades == 102
WindowMaxPrice == 2
WindowMaxQty == 2
LadderOrders == 12
LadderLevels == 11
BlockSize == 2
PoolBlocks == 3
PoolAllocations == 6
QueueOrders == 5
QueueMaxPrice == 1
QueueMaxQty == 2
AgentOrders == 3
AgentMaxPrice == 2
AgentMaxQty == 2

Prices == 1..MaxPrice
Quantities == 1..MaxQty
DeepPrices == 1..DeepMaxPrice
DeepQuantities == 1..DeepMaxQty
ZeroPrices == 1..ZeroMaxPrice
ZeroQuantities == 0..ZeroMaxQty
SignedPrices == (0 - SignedBelowZero)..SignedMaxPrice
SignedQuantities == 1..SignedMaxQty
WindowPrices == 1..WindowMaxPrice
WindowQuantities == 1..WindowMaxQty
QueuePrices == 1..QueueMaxPrice
QueueQuantities == 1..QueueMaxQty
QueueTypes == {"LIMIT", "MARKET"}

(***************************************************************************)
(* Program constants.  Quantity is uint64_t and order_count is uint32_t;   *)
(* the model keeps their wrap-around on a narrower width, since the        *)
(* checker's integers are 32 bits wide.                                    *)
(***************************************************************************)
NULL == 0
QuantityModulus == 65536
CountModulus == 256
MAX_RECENT_TRADES == 100
DEPTH_LEVELS == 10
CleanupPeriod == 10

Side == {"BUY", "SELL"}
OrderType == {"LIMIT", "MARKET", "IOC", "FOK"}
OrderStatus == {"NEW", "PARTIALLY_FILLED", "FILLED", "CANCELLED", "REJECTED"}

VARIABLES
    next_order_id,            \* static std::atomic<OrderId> next_order_id
    orders_,                  \* id -> Order cell (the order index)
    bid_levels_,              \* price -> PriceLevel, best = highest price
    ask_levels_,              \* price -> PriceLevel, best = lowest price
    recent_trade_prices_,
    recent_trade_quantities_,
    cumulative_volume_,
    cumulative_pq_,
    last,                     \* the last call: its arguments, result and events
    inside,                   \* thread -> the OrderBook call it is executing
    order_pool_,              \* MemoryPool<Order>: blocks, free list, live cells
    agent                     \* RLAgent agent(book, ...): the fields of the agent

vars == <<next_order_id, orders_, bid_levels_, ask_levels_, recent_trade_prices_,
          recent_trade_quantities_, cumulative_volume_, cumulative_pq_, last,
          inside, order_pool_, agent>>

Min(S) == CHOOSE x \in S : \A y \in S : x <= y
Max(S) == CHOOSE x \in S : \A y \in S : x >= y
MinQ(a, b) == IF a < b THEN a ELSE b

\* std::map / std::unordered_map: m[k] = v and m.erase(k)
EmptyMap == [x \in {} |-> NULL]
Insert(m, k, v) == (k :> v) @@ m
Erase(m, k) == [x \in DOMAIN m \ {k} |-> m[x]] @@ EmptyMap

(***************************************************************************)
(* order.hpp                                                               *)
(***************************************************************************)
Order(id, price, qty, side, type) ==
    [id |-> id, price |-> price, quantity |-> qty, filled_quantity |-> 0,
     side |-> side, type |-> type, status |-> "NEW", next |-> NULL, prev |-> NULL]

remaining_quantity(o) == (o.quantity - o.filled_quantity) % QuantityModulus

is_fully_filled(o) == o.filled_quantity >= o.quantity

Trade(buy_id, sell_id, p, q) ==
    [buy_order_id |-> buy_id, sell_order_id |-> sell_id, price |-> p, quantity |-> q]

(***************************************************************************)
(* price_level.hpp.  A level is named by its side and its key in that      *)
(* side's map.                                                             *)
(***************************************************************************)
PriceLevel(p) ==
    [price |-> p, total_quantity |-> 0, order_count |-> 0, head |-> NULL, tail |-> NULL]

LevelsOf(b, side) == IF side = "BUY" THEN b.bid_levels_ ELSE b.ask_levels_

WithLevels(b, side, m) ==
    IF side = "BUY" THEN [b EXCEPT !.bid_levels_ = m] ELSE [b EXCEPT !.ask_levels_ = m]

WithLevel(b, side, p, lvl) ==
    WithLevels(b, side, [LevelsOf(b, side) EXCEPT ![p] = lvl])

\* add_order that links the order at the head of the queue
PriceLevel_add_order_at_head(b, side, p, id) ==
    LET lvl == LevelsOf(b, side)[p]
        linked == IF lvl.head # NULL
                  THEN [b.orders_ EXCEPT ![lvl.head].prev = id,
                                         ![id].next = lvl.head,
                                         ![id].prev = NULL]
                  ELSE [b.orders_ EXCEPT ![id].prev = NULL, ![id].next = NULL]
        lvl1 == [lvl EXCEPT
                   !.tail = IF lvl.head # NULL THEN lvl.tail ELSE id,
                   !.head = id,
                   !.total_quantity =
                       (lvl.total_quantity + remaining_quantity(b.orders_[id]))
                           % QuantityModulus,
                   !.order_count = (lvl.order_count + 1) % CountModulus]
    IN  WithLevel([b EXCEPT !.orders_ = linked], side, p, lvl1)

PriceLevel_add_order(b, side, p, id) ==
    LET lvl == LevelsOf(b, side)[p]
        linked == IF lvl.tail # NULL
                  THEN [b.orders_ EXCEPT ![lvl.tail].next = id,
                                         ![id].prev = lvl.tail,
                                         ![id].next = NULL]
                  ELSE [b.orders_ EXCEPT ![id].prev = NULL, ![id].next = NULL]
        lvl1 == [lvl EXCEPT
                   !.head = IF lvl.tail # NULL THEN lvl.head ELSE id,
                   !.tail = id,
                   !.total_quantity =
                       (lvl.total_quantity + remaining_quantity(b.orders_[id]))
                           % QuantityModulus,
                   !.order_count = (lvl.order_count + 1) % CountModulus]
    IN  WithLevel([b EXCEPT !.orders_ = linked], side, p, lvl1)

PriceLevel_remove_order(b, side, p, id) ==
    LET lvl == LevelsOf(b, side)[p]
        o == b.orders_[id]
        o1 == IF o.prev # NULL
              THEN [b.orders_ EXCEPT ![o.prev].next = o.next]
              ELSE b.orders_
        o2 == IF o.next # NULL
              THEN [o1 EXCEPT ![o.next].prev = o.prev]
              ELSE o1
        o3 == [o2 EXCEPT ![id].prev = NULL, ![id].next = NULL]
        lvl1 == [lvl EXCEPT
                   !.head = IF o.prev # NULL THEN lvl.head ELSE o.next,
                   !.tail = IF o.next # NULL THEN lvl.tail ELSE o.prev,
                   !.total_quantity =
                       (lvl.total_quantity - remaining_quantity(o)) % QuantityModulus,
                   !.order_count = (lvl.order_count - 1) % CountModulus]
    IN  WithLevel([b EXCEPT !.orders_ = o3], side, p, lvl1)

update_quantity(b, side, p, id, old_remaining) ==
    LET lvl == LevelsOf(b, side)[p]
    IN  WithLevel(b, side, p,
            [lvl EXCEPT !.total_quantity =
                (lvl.total_quantity - old_remaining
                    + remaining_quantity(b.orders_[id]))
                    % QuantityModulus])

is_empty(lvl) == lvl.order_count = 0

get_best_order(lvl) == lvl.head

(***************************************************************************)
(* orderbook.cpp.  The book record b holds the OrderBook's fields and the  *)
(* events the call under way has delivered to the registered callbacks     *)
(* (events), and the status each order had when its cell was handed back   *)
(* to the pool in this call (released).                                    *)
(*                                                                         *)
(* Statements that follow one another are written                          *)
(*     Val({ rest(b1) : b1 \in {first(b)} })                               *)
(* which is rest(first(b)) with first(b) computed once.                    *)
(***************************************************************************)
Val(S) == CHOOSE r \in S : TRUE

get_or_create_level(b, price, side) ==
    IF price \in DOMAIN LevelsOf(b, side)
    THEN b
    ELSE WithLevels(b, side, Insert(LevelsOf(b, side), price, PriceLevel(price)))

remove_level_if_empty(b, price, side) ==
    IF price \in DOMAIN LevelsOf(b, side) /\ is_empty(LevelsOf(b, side)[price])
    THEN WithLevels(b, side, Erase(LevelsOf(b, side), price))
    ELSE b

\* trade.price * trade.quantity is int64_t * uint64_t: the price is converted to
\* unsigned and the product wraps around before it is added to the double
\* update_market_statistics that drops the oldest price but keeps every quantity
update_market_statistics_prices_only(b, trade) ==
    LET ps == Append(b.recent_trade_prices_, trade.price)
        qs == Append(b.recent_trade_quantities_, trade.quantity)
        over == Len(b.recent_trade_prices_) + 1 > MAX_RECENT_TRADES
    IN  [b EXCEPT
            !.recent_trade_prices_ = IF over THEN Tail(ps) ELSE ps,
            !.recent_trade_quantities_ = qs,
            !.cumulative_volume_ = b.cumulative_volume_ + trade.quantity,
            !.cumulative_pq_ = b.cumulative_pq_
                                  + ((trade.price * trade.quantity) % QuantityModulus)]

update_market_statistics(b, trade) ==
    LET ps == Append(b.recent_trade_prices_, trade.price)
        qs == Append(b.recent_trade_quantities_, trade.quantity)
        over == Len(b.recent_trade_prices_) + 1 > MAX_RECENT_TRADES
    IN  [b EXCEPT
            !.recent_trade_prices_ = IF over THEN Tail(ps) ELSE ps,
            !.recent_trade_quantities_ = IF over THEN Tail(qs) ELSE qs,
            !.cumulative_volume_ = b.cumulative_volume_ + trade.quantity,
            !.cumulative_pq_ = b.cumulative_pq_
                                  + ((trade.price * trade.quantity) % QuantityModulus)]

\* The trade callbacks receive the Trade; the event also keeps which order was
\* the resting one and the order index as it was before the trade.
notify_trade(b, trade, passive, aggressor, before) ==
    [b EXCEPT !.events = Append(b.events,
        [kind |-> "trade", trade |-> trade, passive |-> passive,
         aggressor |-> aggressor, before |-> before])]

notify_order_update(b, id) ==
    [b EXCEPT !.events = Append(b.events, [kind |-> "order", order |-> b.orders_[id]])]

\* begin() of the side's map: the lowest ask, the highest bid
BestPrice(b, side) ==
    IF side = "BUY" THEN Max(DOMAIN b.bid_levels_) ELSE Min(DOMAIN b.ask_levels_)

\* get_best_bid, get_best_ask: std::optional<Price> as a set of at most one price
get_best(b, side) ==
    IF DOMAIN LevelsOf(b, side) = {} THEN {} ELSE {BestPrice(b, side)}

\* The division of signed integers in C++ rounds towards zero
TruncDiv(a, d) == IF a >= 0 THEN a \div d ELSE -((-a) \div d)

\* get_spread: std::optional<Price>
get_spread(b) ==
    {ask - bid : bid \in get_best(b, "BUY"), ask \in get_best(b, "SELL")}

get_volume_at_price(b, price, side) ==
    IF price \in DOMAIN LevelsOf(b, side)
    THEN LevelsOf(b, side)[price].total_quantity
    ELSE 0

\* get_mid_price: std::optional<Price>
get_mid_price(b) ==
    {TruncDiv(bid + ask, 2) : bid \in get_best(b, "BUY"), ask \in get_best(b, "SELL")}

\* A double that is the quotient of two integers converted to double
Ratio(n, d) == [num |-> n, den |-> d]

\* The depth of a side without the limit of DEPTH_LEVELS
RECURSIVE Depth_unbounded(_, _, _)
Depth_unbounded(levels, side, count) ==
    IF DOMAIN levels = {} THEN <<>>
    ELSE LET best == IF side = "BUY" THEN Max(DOMAIN levels) ELSE Min(DOMAIN levels)
         IN  <<[price |-> best, quantity |-> levels[best].total_quantity]>>
                \o Depth_unbounded(Erase(levels, best), side, count)

\* get_market_state's loops over a side's map: (price, total_quantity) of the
\* first count levels from begin()
RECURSIVE Depth(_, _, _)
Depth(levels, side, count) ==
    IF DOMAIN levels = {} \/ count = 0 THEN <<>>
    ELSE LET best == IF side = "BUY" THEN Max(DOMAIN levels) ELSE Min(DOMAIN levels)
         IN  <<[price |-> best, quantity |-> levels[best].total_quantity]>>
                \o Depth(Erase(levels, best), side, count - 1)

\* get_market_state without the volatility and the timestamp.  Quantity is
\* unsigned: bid_quantity - ask_quantity and their sum wrap around.
get_market_state(b) ==
    LET best_bid == get_best(b, "BUY")
        best_ask == get_best(b, "SELL")
        both == best_bid # {} /\ best_ask # {}
        bid_levels == Depth(b.bid_levels_, "BUY", DEPTH_LEVELS)
        ask_levels == Depth(b.ask_levels_, "SELL", DEPTH_LEVELS)
        bid_quantity == IF bid_levels = <<>> THEN 0 ELSE bid_levels[1].quantity
        ask_quantity == IF ask_levels = <<>> THEN 0 ELSE ask_levels[1].quantity
        traded == b.recent_trade_prices_ # <<>>
    IN  [best_bid |-> IF best_bid = {} THEN 0 ELSE BestPrice(b, "BUY"),
         best_ask |-> IF best_ask = {} THEN 0 ELSE BestPrice(b, "SELL"),
         spread |-> IF both THEN BestPrice(b, "SELL") - BestPrice(b, "BUY") ELSE 0,
         mid_price |-> IF both
                       THEN Ratio(BestPrice(b, "BUY") + BestPrice(b, "SELL"), 2)
                       ELSE Ratio(0, 1),
         bid_quantity |-> bid_quantity,
         ask_quantity |-> ask_quantity,
         bid_levels |-> bid_levels,
         ask_levels |-> ask_levels,
         order_flow_imbalance |->
             IF (bid_quantity + ask_quantity) % QuantityModulus > 0
             THEN Ratio((bid_quantity - ask_quantity) % QuantityModulus,
                        (bid_quantity + ask_quantity) % QuantityModulus)
             ELSE Ratio(0, 1),
         last_trade_price |->
             IF traded THEN b.recent_trade_prices_[Len(b.recent_trade_prices_)] ELSE 0,
         last_trade_quantity |->
             IF traded THEN b.recent_trade_quantities_[Len(b.recent_trade_quantities_)]
                       ELSE 0,
         vwap |-> IF b.cumulative_volume_ > 0
                  THEN Ratio(b.cumulative_pq_, b.cumulative_volume_)
                  ELSE Ratio(0, 1)]

\* for (auto& callback : state_callbacks_) callback(get_market_state())
notify_state(b) ==
    [b EXCEPT !.events =
        Append(b.events, [kind |-> "state", state |-> get_market_state(b)])]

SetStatus(b, id, st) == [b EXCEPT !.orders_[id].status = st]

\* filled_quantity += quantity, then the status from is_fully_filled()
Fill(o, quantity) ==
    LET filled == (o.filled_quantity + quantity) % QuantityModulus
    IN  [o EXCEPT !.filled_quantity = filled,
                  !.status = IF filled >= o.quantity
                             THEN "FILLED" ELSE "PARTIALLY_FILLED"]

\* trade_record with the trade priced at the aggressor's limit
trade_record_at_aggressor_price(passive_order, aggressive_order, quantity) ==
    Trade(IF passive_order.side = "BUY" THEN passive_order.id ELSE aggressive_order.id,
          IF passive_order.side = "SELL" THEN passive_order.id ELSE aggressive_order.id,
          aggressive_order.price, quantity)

\* Trade trade(...) in execute_trade
trade_record(passive_order, aggressive_order, quantity) ==
    Trade(IF passive_order.side = "BUY" THEN passive_order.id ELSE aggressive_order.id,
          IF passive_order.side = "SELL" THEN passive_order.id ELSE aggressive_order.id,
          passive_order.price, quantity)

\* execute_trade_fill that forgets the aggressor's fill
execute_trade_fill_passive_only(b, passive, aggressive, quantity) ==
    LET p0 == b.orders_[passive]
    IN  Val({ Val({ update_quantity(b2, p0.side, p0.price, passive,
                                    remaining_quantity(p0))
                    : b2 \in {get_or_create_level(b1, p0.price, p0.side)} })
              : b1 \in {[b EXCEPT
                           !.orders_[passive] = Fill(b.orders_[passive], quantity)]} })

\* execute_trade, lines 72-91: both fills and the level's aggregate
execute_trade_fill(b, passive, aggressive, quantity) ==
    LET p0 == b.orders_[passive]
    IN  Val({ Val({ update_quantity(b2, p0.side, p0.price, passive,
                                    remaining_quantity(p0))
                    : b2 \in {get_or_create_level(b1, p0.price, p0.side)} })
              : b1 \in {[b EXCEPT
                           !.orders_[passive] = Fill(b.orders_[passive], quantity),
                           !.orders_[aggressive] =
                               Fill(b.orders_[aggressive], quantity)]} })

\* execute_trade that tells the order-update subscribers about the aggressor
\* first
execute_trade_notify_aggressor_first(b, trade, passive, aggressive, before) ==
    Val({ Val({ Val({ notify_order_update(b3, passive)
                      : b3 \in {notify_order_update(b2, aggressive)} })
                : b2 \in {notify_trade(b1, trade, passive, aggressive, before)} })
          : b1 \in {update_market_statistics(b, trade)} })

\* execute_trade, lines 93-107: the trade record, the statistics, the callbacks
execute_trade_notify(b, trade, passive, aggressive, before) ==
    Val({ Val({ Val({ notify_order_update(b3, aggressive)
                      : b3 \in {notify_order_update(b2, passive)} })
                : b2 \in {notify_trade(b1, trade, passive, aggressive, before)} })
          : b1 \in {update_market_statistics(b, trade)} })

\* execute_trade, lines 109-113: a filled passive order leaves its level
execute_trade_remove(b, passive) ==
    LET p == b.orders_[passive]
    IN  IF is_fully_filled(p)
        THEN Val({ remove_level_if_empty(b1, p.price, p.side)
                   : b1 \in {PriceLevel_remove_order(b, p.side, p.price, passive)} })
        ELSE b

\* execute_trade that leaves the aggressor's filled quantity as it was
execute_trade_aggressor_unfilled(b, passive, aggressive, quantity) ==
    LET trade == trade_record(b.orders_[passive], b.orders_[aggressive], quantity)
    IN  Val({ Val({ execute_trade_remove(b2, passive)
                    : b2 \in {execute_trade_notify(b1, trade, passive, aggressive,
                                                   b.orders_)} })
              : b1 \in {execute_trade_fill_passive_only(b, passive, aggressive,
                                                        quantity)} })

execute_trade(b, passive, aggressive, quantity) ==
    LET trade == trade_record(b.orders_[passive], b.orders_[aggressive], quantity)
    IN  Val({ Val({ execute_trade_remove(b2, passive)
                    : b2 \in {execute_trade_notify(b1, trade, passive, aggressive,
                                                   b.orders_)} })
              : b1 \in {execute_trade_fill(b, passive, aggressive, quantity)} })

OppositeSide(side) == IF side = "BUY" THEN "SELL" ELSE "BUY"

\* a matching loop that never stops at a price that does not cross
PriceStops_never(incoming, lvl) == FALSE

\* "Check if price crosses": the loop breaks when this holds
PriceStops(incoming, lvl) ==
    IF incoming.side = "BUY" THEN incoming.price < lvl.price
                             ELSE incoming.price > lvl.price

\* "Check order type constraints", after each trade of the loop
TypeConstraint(o) ==
    IF o.type = "IOC" /\ ~is_fully_filled(o) THEN "CANCELLED"
    ELSE IF o.type = "FOK" /\ ~is_fully_filled(o) THEN "REJECTED"
    ELSE "none"

RECURSIVE match_order(_, _)
match_order(b, id) ==
    LET incoming == b.orders_[id]
        opp == OppositeSide(incoming.side)
    IN  IF is_fully_filled(incoming) \/ DOMAIN LevelsOf(b, opp) = {}
        THEN b
        ELSE LET best_level == LevelsOf(b, opp)[BestPrice(b, opp)]
                 passive == get_best_order(best_level)
             IN  IF PriceStops(incoming, best_level) THEN b
                 ELSE IF passive = NULL THEN b
                 ELSE Val({ IF TypeConstraint(b1.orders_[id]) # "none"
                            THEN SetStatus(b1, id, TypeConstraint(b1.orders_[id]))
                            ELSE match_order(b1, id)
                            : b1 \in {execute_trade(b, passive, id,
                                        MinQ(remaining_quantity(incoming),
                                             remaining_quantity(b.orders_[passive])))} })

\* orders_.erase(id); order_pool_.deallocate(order)
Release(b, id) ==
    [b EXCEPT
        !.released = Insert(b.released, id, b.orders_[id].status),
        !.orders_ = Erase(b.orders_, id)]

\* add_order, lines 187-195: a market order takes the best opposite price
MarketPrice(b, price, side, type) ==
    IF type = "MARKET" /\ DOMAIN LevelsOf(b, OppositeSide(side)) # {}
    THEN BestPrice(b, OppositeSide(side))
    ELSE price

\* add_order, lines 183-195
add_order_create(b, id, price, quantity, side, type) ==
    [b EXCEPT !.orders_ =
        Insert(b.orders_, id,
               [Order(id, price, quantity, side, type) EXCEPT
                   !.price = MarketPrice(b, price, side, type)])]

\* add_order_residual that rests an unfilled order of any type
add_order_residual_any_type(b, id, price, side, type) ==
    LET order == b.orders_[id]
    IN  IF /\ ~is_fully_filled(order)
           /\ order.status # "CANCELLED"
           /\ order.status # "REJECTED"
        THEN Val({ Val({ notify_order_update(b2, id)
                         : b2 \in {PriceLevel_add_order(b1, side, price, id)} })
                   : b1 \in {get_or_create_level(b, price, side)} })
        ELSE IF order.status = "CANCELLED" \/ order.status = "REJECTED"
        THEN Release(b, id)
        ELSE b

\* add_order, lines 200-213
add_order_residual(b, id, price, side, type) ==
    LET order == b.orders_[id]
    IN  IF /\ ~is_fully_filled(order)
           /\ order.status # "CANCELLED"
           /\ order.status # "REJECTED"
           /\ type = "LIMIT"
        THEN Val({ Val({ notify_order_update(b2, id)
                         : b2 \in {PriceLevel_add_order(b1, side, price, id)} })
                   : b1 \in {get_or_create_level(b, price, side)} })
        ELSE IF order.status = "CANCELLED" \/ order.status = "REJECTED"
        THEN Release(b, id)
        ELSE b

\* add_order that calls the market-state subscribers before the residual is
\* placed
add_order_state_before_resting(b, id, price, quantity, side, type) ==
    Val({ Val({ Val({ add_order_residual(b3, id, price, side, type)
                      : b3 \in {notify_state(b2)} })
                : b2 \in {match_order(b1, id)} })
          : b1 \in {add_order_create(b, id, price, quantity, side, type)} })

add_order(b, id, price, quantity, side, type) ==
    Val({ Val({ Val({ notify_state(b3)
                      : b3 \in {add_order_residual(b2, id, price, side, type)} })
                : b2 \in {match_order(b1, id)} })
          : b1 \in {add_order_create(b, id, price, quantity, side, type)} })

\* cancel_order, lines 231-236
cancel_order_unlink(b, order_id) ==
    LET order == b.orders_[order_id]
    IN  IF ~is_fully_filled(order)
        THEN Val({ Val({ remove_level_if_empty(b2, order.price, order.side)
                         : b2 \in {PriceLevel_remove_order(b1, order.side,
                                                           order.price, order_id)} })
                   : b1 \in {get_or_create_level(b, order.price, order.side)} })
        ELSE b

\* cancel_order that leaves the cancelled order in the index
cancel_order_keeping_index(b, order_id) ==
    IF order_id \notin DOMAIN b.orders_
    THEN b
    ELSE Val({ notify_order_update(b1, order_id)
               : b1 \in {SetStatus(cancel_order_unlink(b, order_id),
                                   order_id, "CANCELLED")} })

cancel_order(b, order_id) ==
    IF order_id \notin DOMAIN b.orders_
    THEN b
    ELSE Val({ Val({ Release(b2, order_id)
                     : b2 \in {notify_order_update(b1, order_id)} })
               : b1 \in {SetStatus(cancel_order_unlink(b, order_id),
                                   order_id, "CANCELLED")} })

\* modify_order that rewrites the order where it is, keeping its identifier
\* and its place in the queue
modify_order_in_place(b, order_id, new_id, new_price, new_quantity) ==
    IF order_id \notin DOMAIN b.orders_
    THEN b
    ELSE [b EXCEPT !.orders_[order_id].quantity = new_quantity]

\* modify_order that submits the replacement also when the identifier is unknown
modify_order_without_lookup(b, order_id, new_id, new_price, new_quantity) ==
    IF order_id \notin DOMAIN b.orders_
    THEN add_order(b, new_id, new_price, new_quantity, "BUY", "LIMIT")
    ELSE Val({ add_order(b1, new_id, new_price, new_quantity,
                         b.orders_[order_id].side, b.orders_[order_id].type)
               : b1 \in {cancel_order(b, order_id)} })

\* new_id is the identifier the inner add_order draws from next_order_id
modify_order(b, order_id, new_id, new_price, new_quantity) ==
    IF order_id \notin DOMAIN b.orders_
    THEN b
    ELSE Val({ add_order(b1, new_id, new_price, new_quantity,
                         b.orders_[order_id].side, b.orders_[order_id].type)
               : b1 \in {cancel_order(b, order_id)} })

(***************************************************************************)
(* The state machine: one action per entry point of OrderBook.             *)
(***************************************************************************)
Book ==
    [orders_ |-> orders_, bid_levels_ |-> bid_levels_, ask_levels_ |-> ask_levels_,
     recent_trade_prices_ |-> recent_trade_prices_,
     recent_trade_quantities_ |-> recent_trade_quantities_,
     cumulative_volume_ |-> cumulative_volume_, cumulative_pq_ |-> cumulative_pq_,
     events |-> <<>>, released |-> EmptyMap]

Store(b) ==
    /\ orders_' = b.orders_
    /\ bid_levels_' = b.bid_levels_
    /\ ask_levels_' = b.ask_levels_
    /\ recent_trade_prices_' = b.recent_trade_prices_
    /\ recent_trade_quantities_' = b.recent_trade_quantities_
    /\ cumulative_volume_' = b.cumulative_volume_
    /\ cumulative_pq_' = b.cumulative_pq_

(***************************************************************************)
(* rl_agent.cpp.  Of the agent's fields the model keeps the identifiers it *)
(* holds, its trade count and volume, the signed quantity of its position  *)
(* and its action count, which the code reads modulo CleanupPeriod only.   *)
(* submitted is every identifier an add_order of the agent has returned.   *)
(***************************************************************************)
RLAgent ==
    [active_orders_ |-> <<>>, total_trades_ |-> 0, total_volume_ |-> 0,
     position_ |-> [quantity |-> 0], action_count_ |-> 0, submitted |-> {}]

NoCall ==
    [op |-> "none", target |-> NULL, id |-> NULL, price |-> 0, quantity |-> 0,
     side |-> "BUY", type |-> "LIMIT", ret |-> FALSE, again |-> FALSE,
     events |-> <<>>, released |-> EmptyMap]

(***************************************************************************)
(* memory_pool.hpp.  The slots of the blocks are numbered in the order of  *)
(* their allocation, block k holding the slots (k - 1) * BlockSize + 1 to  *)
(* k * BlockSize; NULL is nullptr.  A slot is a Node: next is its link     *)
(* while it is free.  live maps each object handed out and not yet given   *)
(* back (named by the number of its allocation) to its slot; made counts   *)
(* the objects handed out.                                                 *)
(***************************************************************************)
Slots(p) == 1..(p.blocks * BlockSize)

\* allocate_block: a new block, its nodes linked in order in front of the
\* free list
allocate_block(p) ==
    LET first == p.blocks * BlockSize + 1
        final == (p.blocks + 1) * BlockSize
        linked == [s \in first..final |->
                      IF s < final THEN s + 1 ELSE p.free_list_]
    IN  [p EXCEPT !.blocks = p.blocks + 1,
                  !.next = linked @@ p.next,
                  !.free_list_ = first]

\* MemoryPool(initial_blocks = 1)
MemoryPool ==
    allocate_block([blocks |-> 0, free_list_ |-> NULL, next |-> EmptyMap,
                    live |-> EmptyMap, made |-> 0])

\* allocate: the node at the head of the free list, after a new block when
\* the list is empty
allocate(p) ==
    LET q == IF p.free_list_ = NULL THEN allocate_block(p) ELSE p
        node == q.free_list_
    IN  [q EXCEPT !.free_list_ = q.next[node],
                  !.live = Insert(q.live, q.made + 1, node),
                  !.made = q.made + 1]

\* deallocate that forgets to link the node to the rest of the free list
deallocate_unlinked(p, object) ==
    LET node == p.live[object]
    IN  [p EXCEPT !.free_list_ = node,
                  !.live = Erase(p.live, object)]

\* deallocate(ptr), ptr the cell of a live object
deallocate(p, object) ==
    LET node == p.live[object]
    IN  [p EXCEPT !.next = Insert(Erase(p.next, node), node, p.free_list_),
                  !.free_list_ = node,
                  !.live = Erase(p.live, object)]

\* The nodes reached from the head of the free list, in at most fuel steps
RECURSIVE FreeChain(_, _, _)
FreeChain(p, node, fuel) ==
    IF node = NULL \/ fuel = 0 THEN <<>>
    ELSE <<node>> \o FreeChain(p, p.next[node], fuel - 1)

LiveSlots(p) == {p.live[o] : o \in DOMAIN p.live}

(***************************************************************************)
(* The threads of the interactive program: the one of market_thread in     *)
(* main and the main thread, which runs TerminalUI::run.  Outside is a     *)
(* thread that is not executing a member function of the OrderBook.        *)
(***************************************************************************)
Threads == {"market", "ui"}

Outside ==
    [op |-> "none", target |-> NULL, id |-> NULL, price |-> 0, quantity |-> 0,
     side |-> "BUY", type |-> "LIMIT", raced |-> FALSE]

Init ==
    /\ next_order_id = 1
    /\ orders_ = EmptyMap
    /\ bid_levels_ = EmptyMap
    /\ ask_levels_ = EmptyMap
    /\ recent_trade_prices_ = <<>>
    /\ recent_trade_quantities_ = <<>>
    /\ cumulative_volume_ = 0
    /\ cumulative_pq_ = 0
    /\ last = NoCall
    /\ inside = [t \in Threads |-> Outside]
    /\ order_pool_ = MemoryPool
    /\ agent = RLAgent

\* add_order that hands out again the identifier of an order that did not stay
\* in the index
AddOrderIn_recycling(n, P, Q) ==
    \E price \in P, quantity \in Q, side \in Side, type \in OrderType :
        /\ next_order_id <= n
        /\ \E b \in {add_order(Book, next_order_id, price, quantity, side, type)} :
               /\ Store(b)
               /\ last' = [NoCall EXCEPT
                            !.op = "add_order", !.id = next_order_id,
                            !.price = price, !.quantity = quantity,
                            !.side = side, !.type = type, !.ret = TRUE,
                            !.events = b.events, !.released = b.released]
               /\ next_order_id' = IF next_order_id \in DOMAIN b.orders_
                                   THEN next_order_id + 1 ELSE next_order_id
        /\ UNCHANGED <<inside, order_pool_, agent>>

(* A session issues at most n identifiers and draws prices from P and       *)
(* quantities from Q.                                                       *)
AddOrderIn(n, P, Q) ==
    \E price \in P, quantity \in Q, side \in Side, type \in OrderType :
        /\ next_order_id <= n
        /\ \E b \in {add_order(Book, next_order_id, price, quantity, side, type)} :
               /\ Store(b)
               /\ last' = [NoCall EXCEPT
                            !.op = "add_order", !.id = next_order_id,
                            !.price = price, !.quantity = quantity,
                            !.side = side, !.type = type, !.ret = TRUE,
                            !.events = b.events, !.released = b.released]
        /\ next_order_id' = next_order_id + 1
        /\ UNCHANGED <<inside, order_pool_, agent>>

CancelOrderIn(n) ==
    \E order_id \in 1..n :
        /\ \E b \in {cancel_order(Book, order_id)} :
               /\ Store(b)
               /\ last' = [NoCall EXCEPT
                            !.op = "cancel_order", !.target = order_id,
                            !.ret = (order_id \in DOMAIN orders_),
                            !.again = (last.op = "cancel_order"
                                          /\ last.target = order_id),
                            !.events = b.events, !.released = b.released]
        /\ UNCHANGED <<next_order_id, inside, order_pool_, agent>>

ModifyOrderIn(n, P, Q) ==
    \E order_id \in 1..n, new_price \in P, new_quantity \in Q :
        LET found == order_id \in DOMAIN orders_
        IN  /\ found => next_order_id <= n
            /\ \E b \in {modify_order(Book, order_id, next_order_id,
                                      new_price, new_quantity)} :
                /\ Store(b)
                /\ last' = [NoCall EXCEPT
                             !.op = "modify_order", !.target = order_id,
                             !.id = IF found THEN next_order_id ELSE NULL,
                             !.price = new_price, !.quantity = new_quantity,
                             !.side = IF found THEN orders_[order_id].side ELSE "BUY",
                             !.type = IF found THEN orders_[order_id].type
                                               ELSE "LIMIT",
                             !.ret = found,
                             !.events = b.events, !.released = b.released]
            /\ next_order_id' = IF found THEN next_order_id + 1 ELSE next_order_id
            /\ UNCHANGED <<inside, order_pool_, agent>>

AddOrder == AddOrderIn(MaxOrders, Prices, Quantities)
CancelOrder == CancelOrderIn(MaxOrders)
ModifyOrder == ModifyOrderIn(MaxOrders, Prices, Quantities)

Next == AddOrder \/ CancelOrder \/ ModifyOrder

Spec == Init /\ [][Next]_vars

(* Longer sessions over a narrower range of prices and quantities.          *)
DeepAddOrder == AddOrderIn(DeepOrders, DeepPrices, DeepQuantities)
DeepCancelOrder == CancelOrderIn(DeepOrders)
DeepModifyOrder == ModifyOrderIn(DeepOrders, DeepPrices, DeepQuantities)

NextDeep == DeepAddOrder \/ DeepCancelOrder \/ DeepModifyOrder

SpecDeep == Init /\ [][NextDeep]_vars

(* Sessions whose callers also pass quantity 0, which Quantity (uint64_t)   *)
(* admits.                                                                  *)
ZeroAddOrder == AddOrderIn(ZeroOrders, ZeroPrices, ZeroQuantities)
ZeroCancelOrder == CancelOrderIn(ZeroOrders)
ZeroModifyOrder == ModifyOrderIn(ZeroOrders, ZeroPrices, ZeroQuantities)

NextZero == ZeroAddOrder \/ ZeroCancelOrder \/ ZeroModifyOrder

SpecZero == Init /\ [][NextZero]_vars

(* Short sessions, for the properties that submit further orders to every   *)
(* state they reach.                                                        *)
ShortAddOrder == AddOrderIn(ShortOrders, Prices, Quantities)
ShortCancelOrder == CancelOrderIn(ShortOrders)
ShortModifyOrder == ModifyOrderIn(ShortOrders, Prices, Quantities)

NextShort == ShortAddOrder \/ ShortCancelOrder \/ ShortModifyOrder

SpecShort == Init /\ [][NextShort]_vars

(* Sessions whose prices are also zero and negative, which Price (int64_t)  *)
(* admits.                                                                  *)
SignedAddOrder == AddOrderIn(SignedOrders, SignedPrices, SignedQuantities)
SignedCancelOrder == CancelOrderIn(SignedOrders)
SignedModifyOrder == ModifyOrderIn(SignedOrders, SignedPrices, SignedQuantities)

NextSigned == SignedAddOrder \/ SignedCancelOrder \/ SignedModifyOrder

SpecSigned == Init /\ [][NextSigned]_vars

(* Sessions of more than MAX_RECENT_TRADES trades, for the statistics alone: *)
(* a step is one call of update_market_statistics, with a trade whose price  *)
(* and quantity are not below those of the trade before it.  Here           *)
(* last.events collects the trades of the whole session.                    *)
WindowTrade ==
    /\ Len(last.events) < WindowTrades
    /\ \E price \in WindowPrices, quantity \in WindowQuantities :
          /\ last.events # <<>> =>
                /\ price >= last.events[Len(last.events)].trade.price
                /\ quantity >= last.events[Len(last.events)].trade.quantity
          /\ \E trade \in {Trade(NULL, NULL, price, quantity)} :
             \E b \in {update_market_statistics(Book, trade)} :
                /\ Store(b)
                /\ last' = [last EXCEPT
                             !.op = "update_market_statistics",
                             !.price = price, !.quantity = quantity,
                             !.events = Append(last.events,
                                               [kind |-> "trade", trade |-> trade,
                                                passive |-> NULL, aggressor |-> NULL,
                                                before |-> EmptyMap])]
    /\ UNCHANGED <<next_order_id, inside, order_pool_, agent>>

NextWindow == WindowTrade

SpecWindow == Init /\ [][NextWindow]_vars

(* Books of more than DEPTH_LEVELS levels on a side: every order is a Limit  *)
(* order of quantity 1 one tick behind the worst price of its side, the      *)
(* bids from LadderLevels downwards and the asks from LadderLevels + 1       *)
(* upwards.                                                                  *)
LadderAddOrder ==
    \E side \in Side :
        \E price \in {IF side = "BUY"
                      THEN LadderLevels - Cardinality(DOMAIN bid_levels_)
                      ELSE LadderLevels + 1 + Cardinality(DOMAIN ask_levels_)} :
            /\ next_order_id <= LadderOrders
            /\ Cardinality(DOMAIN LevelsOf(Book, side)) < LadderLevels
            /\ \E b \in {add_order(Book, next_order_id, price, 1, side, "LIMIT")} :
                   /\ Store(b)
                   /\ last' = [NoCall EXCEPT
                                !.op = "add_order", !.id = next_order_id,
                                !.price = price, !.quantity = 1,
                                !.side = side, !.type = "LIMIT", !.ret = TRUE,
                                !.events = b.events, !.released = b.released]
            /\ next_order_id' = next_order_id + 1
            /\ UNCHANGED <<inside, order_pool_, agent>>

NextLadder == LadderAddOrder

SpecLadder == Init /\ [][NextLadder]_vars

(* Sessions of Limit and Market buys, Limit sells of quantity 1 and cancels, *)
(* long enough for a partially filled bid to be followed by later orders at *)
(* its price.                                                               *)
QueueAddOrder ==
    \E price \in QueuePrices, quantity \in QueueQuantities, side \in Side,
       type \in QueueTypes :
        /\ next_order_id <= QueueOrders
        /\ side = "SELL" => (type = "LIMIT" /\ quantity = 1)
        /\ \E b \in {add_order(Book, next_order_id, price, quantity, side, type)} :
               /\ Store(b)
               /\ last' = [NoCall EXCEPT
                            !.op = "add_order", !.id = next_order_id,
                            !.price = price, !.quantity = quantity,
                            !.side = side, !.type = type, !.ret = TRUE,
                            !.events = b.events, !.released = b.released]
        /\ next_order_id' = next_order_id + 1
        /\ UNCHANGED <<inside, order_pool_, agent>>

QueueCancelOrder == CancelOrderIn(QueueOrders)

NextQueue == QueueAddOrder \/ QueueCancelOrder

SpecQueue == Init /\ [][NextQueue]_vars

(* The pool alone: allocate and deallocate in any order, deallocate only on *)
(* the cell of an object that is allocated.                                 *)
PoolAllocate ==
    /\ order_pool_.made < PoolAllocations
    /\ order_pool_.free_list_ = NULL => order_pool_.blocks < PoolBlocks
    /\ order_pool_' = allocate(order_pool_)
    /\ last' = [NoCall EXCEPT !.op = "allocate",
                              !.id = order_pool_'.live[order_pool_'.made]]
    /\ UNCHANGED <<next_order_id, orders_, bid_levels_, ask_levels_,
                   recent_trade_prices_, recent_trade_quantities_,
                   cumulative_volume_, cumulative_pq_, inside, agent>>

PoolDeallocate ==
    /\ \E object \in DOMAIN order_pool_.live :
          /\ order_pool_' = deallocate(order_pool_, object)
          /\ last' = [NoCall EXCEPT !.op = "deallocate",
                                    !.target = order_pool_.live[object]]
    /\ UNCHANGED <<next_order_id, orders_, bid_levels_, ask_levels_,
                   recent_trade_prices_, recent_trade_quantities_,
                   cumulative_volume_, cumulative_pq_, inside, agent>>

NextPool == PoolAllocate \/ PoolDeallocate

SpecPool == Init /\ [][NextPool]_vars

(***************************************************************************)
(* The interactive program.  market_thread calls simulate_step and         *)
(* add_order on the book while the main thread, in TerminalUI::run, calls  *)
(* add_order (execute_command), add_order and cancel_order (the agent's    *)
(* action) and the queries of update().  Neither takes a lock and there is *)
(* no queue between them.  A call is two steps, its entry and its return;  *)
(* the identifier is taken at the entry (fetch_add is atomic), the rest of *)
(* the call's writes are done by its return.  A call that was inside the   *)
(* book together with a call of the other thread is a data race: it either *)
(* has the effect it would have alone or its writes to the book are lost.  *)
(***************************************************************************)
CallsOf(t) ==
    IF t = "market"
    THEN {[Outside EXCEPT !.op = "add_order", !.price = price,
                          !.quantity = quantity, !.side = side]
          : price \in Prices, quantity \in Quantities, side \in Side}
    ELSE {[Outside EXCEPT !.op = "add_order", !.price = price,
                          !.quantity = quantity, !.side = c[1], !.type = c[2]]
          : price \in Prices, quantity \in Quantities,
            c \in Side \X {"LIMIT", "MARKET"}}
         \cup {[Outside EXCEPT !.op = "cancel_order", !.target = order_id]
               : order_id \in 1..ThreadOrders}
         \cup {[Outside EXCEPT !.op = "get_market_state"]}

Effect(b, call) ==
    IF call.op = "add_order"
    THEN add_order(b, call.id, call.price, call.quantity, call.side, call.type)
    ELSE IF call.op = "cancel_order" THEN cancel_order(b, call.target)
    ELSE b

Outcomes(b, call) == IF call.raced THEN {Effect(b, call), b} ELSE {Effect(b, call)}

EngineEnter(t) ==
    /\ inside[t] = Outside
    /\ \E call \in CallsOf(t) :
          /\ call.op = "add_order" => next_order_id <= ThreadOrders
          /\ inside' =
                [u \in Threads |->
                    IF u = t
                    THEN [call EXCEPT
                            !.id = IF call.op = "add_order" THEN next_order_id
                                                            ELSE NULL,
                            !.raced = \E v \in Threads \ {t} : inside[v] # Outside]
                    ELSE IF inside[u] # Outside
                    THEN [inside[u] EXCEPT !.raced = TRUE]
                    ELSE inside[u]]
          /\ next_order_id' = IF call.op = "add_order" THEN next_order_id + 1
                                                        ELSE next_order_id
    /\ UNCHANGED <<orders_, bid_levels_, ask_levels_, recent_trade_prices_,
                   recent_trade_quantities_, cumulative_volume_, cumulative_pq_,
                   last, order_pool_, agent>>

EngineReturn(t) ==
    /\ inside[t] # Outside
    /\ \E call \in {inside[t]} : \E b \in Outcomes(Book, call) :
          /\ Store(b)
          /\ last' = [NoCall EXCEPT
                       !.op = call.op, !.target = call.target, !.id = call.id,
                       !.price = call.price, !.quantity = call.quantity,
                       !.side = call.side, !.type = call.type,
                       !.ret = (call.op = "cancel_order"
                                   => call.target \in DOMAIN orders_),
                       !.events = b.events, !.released = b.released]
    /\ inside' = [inside EXCEPT ![t] = Outside]
    /\ UNCHANGED <<next_order_id, order_pool_, agent>>

MarketThread == EngineEnter("market") \/ EngineReturn("market")
UiThread == EngineEnter("ui") \/ EngineReturn("ui")

NextThreads == MarketThread \/ UiThread

SpecThreads == Init /\ [][NextThreads]_vars

(***************************************************************************)
(* What the claims speak of.                                               *)
(***************************************************************************)
Live == {"NEW", "PARTIALLY_FILLED"}

IsTrade(e) == e.kind = "trade"

Trades(events) == SelectSeq(events, IsTrade)

RECURSIVE TradedQuantity(_)
TradedQuantity(trades) ==
    IF trades = <<>> THEN 0
    ELSE Head(trades).trade.quantity + TradedQuantity(Tail(trades))

\* The orders of an index that rest on a side: limit orders that were accepted
\* and are neither filled nor cancelled.
Resting(index, side) ==
    {i \in DOMAIN index :
        index[i].side = side /\ index[i].type = "LIMIT" /\ index[i].status \in Live}

Crosses(side, price, resting_price) ==
    IF side = "BUY" THEN price >= resting_price ELSE price <= resting_price

\* The resting orders an incoming order of this side, price and type can trade with
Crossable(index, side, price, type) ==
    {i \in Resting(index, OppositeSide(side)) :
        type = "MARKET" \/ Crosses(side, price, index[i].price)}

RECURSIVE RemainingOf(_, _)
RemainingOf(index, ids) ==
    IF ids = {} THEN 0
    ELSE LET i == CHOOSE x \in ids : TRUE
         IN  remaining_quantity(index[i]) + RemainingOf(index, ids \ {i})

\* The status the submitted order of the last call ended with
FinalStatus(index, call) ==
    IF call.id \in DOMAIN index THEN index[call.id].status
    ELSE IF call.id \in DOMAIN call.released THEN call.released[call.id]
    ELSE "none"

\* The orders reached from a level's head along the next pointers
RECURSIVE Chain(_, _, _)
Chain(index, id, fuel) ==
    IF id = NULL \/ id \notin DOMAIN index \/ fuel = 0 THEN <<>>
    ELSE <<id>> \o Chain(index, index[id].next, fuel - 1)

Linked(lvl) == Chain(orders_, lvl.head, Cardinality(DOMAIN orders_))

RECURSIVE ChainRemaining(_)
ChainRemaining(ids) ==
    IF ids = <<>> THEN 0
    ELSE remaining_quantity(orders_[Head(ids)]) + ChainRemaining(Tail(ids))

AllLevels == {bid_levels_[p] : p \in DOMAIN bid_levels_}
                \cup {ask_levels_[p] : p \in DOMAIN ask_levels_}

(***************************************************************************)
(* Every pointer of the engine refers to an order cell that is still       *)
(* allocated, so naming a cell by the identifier of its order loses        *)
(* nothing: no operation reads or writes a cell handed back to the pool.   *)
(***************************************************************************)
PointersValid ==
    /\ \A lvl \in AllLevels : {lvl.head, lvl.tail} \subseteq DOMAIN orders_ \cup {NULL}
    /\ \A i \in DOMAIN orders_ :
          {orders_[i].next, orders_[i].prev} \subseteq DOMAIN orders_ \cup {NULL}

(***************************************************************************)
(* C1  Price-time priority: the resting order of every trade is, at the    *)
(* moment of the trade, the one with the best price on its side and, among *)
(* those at that price, the one that came to rest first (identifiers are   *)
(* issued in submission order, and an order rests inside its own           *)
(* add_order).                                                             *)
(***************************************************************************)
HasPriority(index, i, j) ==
    \/ (index[i].side = "SELL" /\ index[i].price < index[j].price)
    \/ (index[i].side = "BUY" /\ index[i].price > index[j].price)
    \/ (index[i].price = index[j].price /\ i <= j)

C1_PriceTimePriority ==
    \A k \in 1..Len(last.events) :
        LET e == last.events[k]
        IN  IsTrade(e) =>
              LET resting == Resting(e.before, OppositeSide(e.before[e.aggressor].side))
              IN  /\ e.passive \in resting
                  /\ \A j \in resting : HasPriority(e.before, e.passive, j)

(***************************************************************************)
(* C2  Every trade is priced at the resting order's price, its quantity is *)
(* the smaller of the two remaining quantities and is positive, and its    *)
(* buyer and seller are the Buy and the Sell order of the pair.            *)
(***************************************************************************)
C2_TradeRecord ==
    \A k \in 1..Len(last.events) :
        LET e == last.events[k]
        IN  IsTrade(e) =>
              LET p == e.before[e.passive]
                  a == e.before[e.aggressor]
                  t == e.trade
              IN  /\ t.price = p.price
                  /\ t.quantity = MinQ(remaining_quantity(a), remaining_quantity(p))
                  /\ t.quantity > 0
                  /\ {t.buy_order_id, t.sell_order_id} = {e.passive, e.aggressor}
                  /\ e.before[t.buy_order_id].side = "BUY"
                  /\ e.before[t.sell_order_id].side = "SELL"

\* A trade below the buyer's limit that fills the resting order and leaves the
\* aggressor with quantity to go
C2_Witness ==
    \E k \in 1..Len(last.events) :
        /\ IsTrade(last.events[k])
        /\ last.events[k].before[last.events[k].aggressor].price
              # last.events[k].trade.price
        /\ last.events[k].trade.quantity
              < remaining_quantity(last.events[k].before[last.events[k].aggressor])

(***************************************************************************)
(* C3  Between operations the book is not crossed: when both sides have a  *)
(* level, the best bid is below the best ask.                              *)
(***************************************************************************)
C3_NeverCrossed ==
    (DOMAIN bid_levels_ # {} /\ DOMAIN ask_levels_ # {})
        => Max(DOMAIN bid_levels_) < Min(DOMAIN ask_levels_)

(***************************************************************************)
(* C4  For every level, total_quantity is the sum of the remaining         *)
(* quantities of the orders linked in it and order_count is their number.  *)
(***************************************************************************)
C4_LevelAggregates ==
    \A lvl \in AllLevels :
        /\ lvl.total_quantity = ChainRemaining(Linked(lvl))
        /\ lvl.order_count = Len(Linked(lvl))

(***************************************************************************)
(* C5  An identifier is in the order index exactly when its order is live: *)
(* every indexed order is New or PartiallyFilled, and every order that     *)
(* left the index was Filled, Cancelled or Rejected.                       *)
(***************************************************************************)
C5_IndexIffLive ==
    /\ \A i \in DOMAIN orders_ : orders_[i].status \in Live
    /\ \A i \in DOMAIN last.released : last.released[i] \notin Live

(***************************************************************************)
(* C6  A FillOrKill order larger than the quantity resting at crossable    *)
(* prices trades nothing: it ends Rejected and the book sides, the filled  *)
(* quantities of the indexed orders and the trade statistics stay as they  *)
(* were.                                                                   *)
(***************************************************************************)
C6_FokInfeasibleStep ==
    (/\ last'.op = "add_order"
     /\ last'.type = "FOK"
     /\ last'.quantity >
           RemainingOf(orders_, Crossable(orders_, last'.side, last'.price, "FOK")))
    => /\ Trades(last'.events) = <<>>
       /\ FinalStatus(orders_', last') = "REJECTED"
       /\ bid_levels_' = bid_levels_
       /\ ask_levels_' = ask_levels_
       /\ \A i \in DOMAIN orders_ :
             /\ i \in DOMAIN orders_'
             /\ orders_'[i].filled_quantity = orders_[i].filled_quantity
       /\ UNCHANGED <<recent_trade_prices_, recent_trade_quantities_,
                      cumulative_volume_, cumulative_pq_>>

C6_FokInfeasible == [][C6_FokInfeasibleStep]_vars

(***************************************************************************)
(* C7  A FillOrKill order no larger than the quantity resting at crossable *)
(* prices is filled completely and ends Filled.                            *)
(***************************************************************************)
C7_FokFeasibleStep ==
    (/\ last'.op = "add_order"
     /\ last'.type = "FOK"
     /\ last'.quantity <=
           RemainingOf(orders_, Crossable(orders_, last'.side, last'.price, "FOK")))
    => /\ TradedQuantity(Trades(last'.events)) = last'.quantity
       /\ FinalStatus(orders_', last') = "FILLED"

C7_FokFeasible == [][C7_FokFeasibleStep]_vars

(***************************************************************************)
(* C8  An ImmediateOrCancel order that ends with unfilled quantity, also   *)
(* one that traded nothing, is Cancelled, is not in the order index and is *)
(* linked in no level.                                                     *)
(***************************************************************************)
C8_IocResidualCancelled ==
    (/\ last.op = "add_order"
     /\ last.type = "IOC"
     /\ TradedQuantity(Trades(last.events)) < last.quantity)
    => /\ last.id \notin DOMAIN orders_
       /\ FinalStatus(orders_, last) = "CANCELLED"
       /\ \A lvl \in AllLevels : last.id \notin {lvl.head, lvl.tail}

(***************************************************************************)
(* C9  An ImmediateOrCancel order is filled for the smaller of its         *)
(* quantity and the quantity resting at crossable prices.                  *)
(***************************************************************************)
C9_IocFillStep ==
    (last'.op = "add_order" /\ last'.type = "IOC")
    => TradedQuantity(Trades(last'.events)) =
          MinQ(last'.quantity,
               RemainingOf(orders_, Crossable(orders_, last'.side, last'.price, "IOC")))

C9_IocFill == [][C9_IocFillStep]_vars

(***************************************************************************)
(* C10  A market order walks the book: it is filled for the smaller of its *)
(* quantity and all the quantity resting on the opposite side, one trade   *)
(* per resting order it consumes.                                          *)
(***************************************************************************)
C10_MarketWalkStep ==
    (last'.op = "add_order" /\ last'.type = "MARKET")
    => LET trades == Trades(last'.events)
       IN  /\ TradedQuantity(trades) =
                 MinQ(last'.quantity,
                      RemainingOf(orders_,
                          Crossable(orders_, last'.side, last'.price, "MARKET")))
           /\ \A i, j \in 1..Len(trades) :
                 trades[i].passive = trades[j].passive => i = j

C10_MarketWalk == [][C10_MarketWalkStep]_vars

(***************************************************************************)
(* C11  A Market order submitted while the opposite side has no level      *)
(* trades nothing, leaves both sides of the book as they were, ends        *)
(* Rejected and is not in the order index.                                 *)
(***************************************************************************)
C11_MarketNoLiquidityStep ==
    (/\ last'.op = "add_order"
     /\ last'.type = "MARKET"
     /\ DOMAIN LevelsOf(Book, OppositeSide(last'.side)) = {})
    => /\ Trades(last'.events) = <<>>
       /\ bid_levels_' = bid_levels_
       /\ ask_levels_' = ask_levels_
       /\ FinalStatus(orders_', last') = "REJECTED"
       /\ last'.id \notin DOMAIN orders_'

C11_MarketNoLiquidity == [][C11_MarketNoLiquidityStep]_vars

(***************************************************************************)
(* C12  A Market order is never live when its add_order has returned: one  *)
(* that traded and still has unfilled quantity is Cancelled and out of the *)
(* order index, and none is left in the index New or PartiallyFilled.      *)
(***************************************************************************)
C12_MarketResidualCancelled ==
    (last.op = "add_order" /\ last.type = "MARKET")
    => /\ (/\ 0 < TradedQuantity(Trades(last.events))
           /\ TradedQuantity(Trades(last.events)) < last.quantity)
          => /\ last.id \notin DOMAIN orders_
             /\ FinalStatus(orders_, last) = "CANCELLED"
       /\ last.id \in DOMAIN orders_ => orders_[last.id].status \notin Live

(***************************************************************************)
(* C13  cancel_order on the identifier of an order that is fully filled    *)
(* returns false, changes the status of no order and delivers no order     *)
(* update.                                                                 *)
(***************************************************************************)
IsOrderUpdate(e) == e.kind = "order"

C13_CancelFilledStep ==
    (/\ last'.op = "cancel_order"
     /\ last'.target \in DOMAIN orders_
     /\ orders_[last'.target].status = "FILLED")
    => /\ last'.ret = FALSE
       /\ SelectSeq(last'.events, IsOrderUpdate) = <<>>
       /\ \A i \in DOMAIN orders_ :
             IF i \in DOMAIN orders_'
             THEN orders_'[i].status = orders_[i].status
             ELSE i \in DOMAIN last'.released
                  /\ last'.released[i] = orders_[i].status

C13_CancelFilled == [][C13_CancelFilledStep]_vars

(***************************************************************************)
(* C14  modify_order on the identifier of a fully filled order returns     *)
(* false and does nothing: no replacement is submitted, no identifier is   *)
(* taken, nothing trades and the book stays as it was.                     *)
(***************************************************************************)
C14_ModifyFilledStep ==
    (/\ last'.op = "modify_order"
     /\ last'.target \in DOMAIN orders_
     /\ orders_[last'.target].status = "FILLED")
    => /\ last'.ret = FALSE
       /\ Trades(last'.events) = <<>>
       /\ UNCHANGED <<next_order_id, orders_, bid_levels_, ask_levels_,
                      recent_trade_prices_, recent_trade_quantities_,
                      cumulative_volume_, cumulative_pq_>>

C14_ModifyFilled == [][C14_ModifyFilledStep]_vars

(***************************************************************************)
(* C15  modify_order on a resting order is cancel_order followed by        *)
(* add_order with the order's side and type: it returns true, the old      *)
(* identifier leaves the index, the replacement has a new, larger          *)
(* identifier and is matched as any new order, and when it rests it is the *)
(* tail of its level, also at the old price and quantity.                  *)
(***************************************************************************)
InChain(id, chain) == \E k \in 1..Len(chain) : chain[k] = id

IsResting(id) ==
    /\ id \in DOMAIN orders_
    /\ orders_[id].price \in DOMAIN LevelsOf(Book, orders_[id].side)
    /\ InChain(id, Linked(LevelsOf(Book, orders_[id].side)[orders_[id].price]))

C15_ModifyIsCancelThenAddStep ==
    (last'.op = "modify_order" /\ IsResting(last'.target))
    => /\ last'.ret = TRUE
       /\ last'.target \notin DOMAIN orders_'
       /\ last'.id = next_order_id
       /\ last'.id > last'.target
       /\ next_order_id' = next_order_id + 1
       /\ \A b \in {add_order(cancel_order(Book, last'.target), next_order_id,
                              last'.price, last'.quantity,
                              orders_[last'.target].side,
                              orders_[last'.target].type)} :
              /\ orders_' = b.orders_
              /\ bid_levels_' = b.bid_levels_
              /\ ask_levels_' = b.ask_levels_
              /\ recent_trade_prices_' = b.recent_trade_prices_
              /\ recent_trade_quantities_' = b.recent_trade_quantities_
              /\ cumulative_volume_' = b.cumulative_volume_
              /\ cumulative_pq_' = b.cumulative_pq_
              /\ last'.events = b.events
              /\ last'.released = b.released
       /\ (last'.id \in DOMAIN orders_' /\ ~is_fully_filled(orders_'[last'.id]))
          => LET levels == IF last'.side = "BUY" THEN bid_levels_' ELSE ask_levels_'
             IN  /\ last'.price \in DOMAIN levels
                 /\ levels[last'.price].tail = last'.id

C15_ModifyIsCancelThenAdd == [][C15_ModifyIsCancelThenAddStep]_vars

\* A resting order, first of two in its level, was modified to the price and
\* quantity it had: its replacement is now behind the other order.
C15_Witness ==
    /\ last.op = "modify_order"
    /\ last.ret
    /\ last.id \in DOMAIN orders_
    /\ last.target \in DOMAIN last.released
    /\ \E lvl \in AllLevels :
          /\ lvl.tail = last.id
          /\ lvl.head # last.id
          /\ lvl.head > last.target
          /\ lvl.order_count = 2
          /\ lvl.price = last.price
          /\ orders_[last.id].quantity = last.quantity
          /\ Linked(lvl) = <<lvl.head, last.id>>

(***************************************************************************)
(* C16  cancel_order and modify_order on an identifier that is not in the  *)
(* order index return false, leave the book sides, the index, the trade    *)
(* statistics and the identifier counter as they were and call no          *)
(* callback.                                                               *)
(***************************************************************************)
C16_UnknownIdentifierStep ==
    (/\ last'.op \in {"cancel_order", "modify_order"}
     /\ last'.target \notin DOMAIN orders_)
    => /\ last'.ret = FALSE
       /\ last'.events = <<>>
       /\ UNCHANGED <<next_order_id, orders_, bid_levels_, ask_levels_,
                      recent_trade_prices_, recent_trade_quantities_,
                      cumulative_volume_, cumulative_pq_>>

C16_UnknownIdentifier == [][C16_UnknownIdentifierStep]_vars

\* modify_order was refused for an identifier that is not in the index, on a
\* book that has orders on both sides and has traded
C16_Witness ==
    /\ last.op = "modify_order"
    /\ last.ret = FALSE
    /\ last.target \notin DOMAIN orders_
    /\ DOMAIN bid_levels_ # {}
    /\ DOMAIN ask_levels_ # {}

(***************************************************************************)
(* C17  cancel_order is idempotent: called a second time in a row with the *)
(* same identifier it returns false and changes nothing.                   *)
(***************************************************************************)
C17_CancelIdempotentStep ==
    (/\ last.op = "cancel_order"
     /\ last'.op = "cancel_order"
     /\ last'.target = last.target)
    => /\ last'.ret = FALSE
       /\ last'.events = <<>>
       /\ UNCHANGED <<next_order_id, orders_, bid_levels_, ask_levels_,
                      recent_trade_prices_, recent_trade_quantities_,
                      cumulative_volume_, cumulative_pq_>>

C17_CancelIdempotent == [][C17_CancelIdempotentStep]_vars

\* The second of two cancel_order calls in a row for an identifier that was
\* issued, on a book that still holds an order
C17_Witness ==
    /\ last.op = "cancel_order"
    /\ last.again
    /\ last.ret = FALSE
    /\ last.target < next_order_id
    /\ AllLevels # {}

(***************************************************************************)
(* C18  add_order with quantity 0 is refused: the identifier it returns is *)
(* not one of an order in the index, both book sides and the index stay as *)
(* they were, and no order of quantity 0 is ever in the index.             *)
(***************************************************************************)
C18_ZeroQuantityStep ==
    /\ (last'.op = "add_order" /\ last'.quantity = 0)
       => /\ last'.id \notin DOMAIN orders_'
          /\ orders_' = orders_
          /\ bid_levels_' = bid_levels_
          /\ ask_levels_' = ask_levels_
    /\ \A i \in DOMAIN orders_' : orders_'[i].quantity # 0

C18_ZeroQuantityRejected == [][C18_ZeroQuantityStep]_vars

(***************************************************************************)
(* C19  No level of either side is empty: each has a head and at least one *)
(* linked order.  Every resting order is linked in exactly one level, the  *)
(* one keyed by its own price in the map of its own side.                  *)
(***************************************************************************)
C19_LevelsNonEmptyOrdersPlaced ==
    /\ \A lvl \in AllLevels : lvl.head # NULL /\ Len(Linked(lvl)) >= 1
    /\ \A s \in Side : \A p \in DOMAIN LevelsOf(Book, s) :
          LevelsOf(Book, s)[p].price = p
    /\ \A i \in Resting(orders_, "BUY") \cup Resting(orders_, "SELL") :
          \A s \in Side : \A p \in DOMAIN LevelsOf(Book, s) :
              InChain(i, Linked(LevelsOf(Book, s)[p]))
                  <=> (s = orders_[i].side /\ p = orders_[i].price)

(***************************************************************************)
(* C20  Every order linked in a level has filled_quantity < quantity and   *)
(* status New or PartiallyFilled, and is a Limit order.  The linked orders *)
(* of a level are those reached from its head and the one at its tail.     *)
(***************************************************************************)
LinkedCells(lvl) ==
    {Linked(lvl)[k] : k \in 1..Len(Linked(lvl))} \cup ({lvl.tail} \ {NULL})

C20_LinkedOrdersLive ==
    \A lvl \in AllLevels : \A i \in LinkedCells(lvl) :
        /\ i \in DOMAIN orders_
        /\ orders_[i].filled_quantity < orders_[i].quantity
        /\ orders_[i].status \in Live
        /\ orders_[i].type = "LIMIT"

\* A level holds a partially filled order with another order queued behind it
C20_Witness ==
    \E lvl \in AllLevels :
        /\ Len(Linked(lvl)) = 2
        /\ orders_[lvl.head].status = "PARTIALLY_FILLED"
        /\ lvl.tail # lvl.head
        /\ lvl.tail = Linked(lvl)[2]

(***************************************************************************)
(* C21  Trade conservation.  A trade of quantity q raises the filled       *)
(* quantity of its aggressor and of its resting order by q each, to no     *)
(* more than the order's quantity, and over a whole call the filled        *)
(* quantity of every order grows by the quantities of the trades of that   *)
(* call it took part in and by nothing else; an order starts at 0.         *)
(***************************************************************************)
RECURSIVE TradedBy(_, _)
TradedBy(trades, i) ==
    IF trades = <<>> THEN 0
    ELSE (IF i \in {Head(trades).passive, Head(trades).aggressor}
          THEN Head(trades).trade.quantity ELSE 0)
         + TradedBy(Tail(trades), i)

\* The index as a trade left it: what the next trade of the call found, or
\* what the call left when it returned
AfterTrade(events, k, final) ==
    IF \E j \in (k + 1)..Len(events) : IsTrade(events[j])
    THEN events[Min({j \in (k + 1)..Len(events) : IsTrade(events[j])})].before
    ELSE final

\* The order update at position k is the one of order i after a fill of q
FilledBy(events, k, before, i, q) ==
    /\ k <= Len(events)
    /\ IsOrderUpdate(events[k])
    /\ events[k].order.id = i
    /\ events[k].order.filled_quantity = before[i].filled_quantity + q
    /\ events[k].order.filled_quantity <= events[k].order.quantity

C21_TradeConservationStep ==
    /\ \A k \in 1..Len(last'.events) :
          LET e == last'.events[k]
          IN  IsTrade(e) =>
                /\ FilledBy(last'.events, k + 1, e.before, e.passive, e.trade.quantity)
                /\ FilledBy(last'.events, k + 2, e.before, e.aggressor, e.trade.quantity)
                /\ \A i \in DOMAIN e.before \ {e.passive, e.aggressor} :
                      LET after == AfterTrade(last'.events, k, orders_')
                      IN  /\ i \in DOMAIN after
                          /\ after[i].filled_quantity = e.before[i].filled_quantity
    /\ \A i \in DOMAIN orders_' :
          /\ orders_'[i].filled_quantity =
                (IF i \in DOMAIN orders_ THEN orders_[i].filled_quantity ELSE 0)
                  + TradedBy(Trades(last'.events), i)
          /\ orders_'[i].filled_quantity <= orders_'[i].quantity

C21_TradeConservation == [][C21_TradeConservationStep]_vars

\* A call made two trades, the second with a resting order that the first
\* trade had left alone
C21_Witness ==
    /\ Len(Trades(last.events)) = 2
    /\ Trades(last.events)[1].passive # Trades(last.events)[2].passive
    /\ orders_[last.id].filled_quantity = 2

(***************************************************************************)
(* C22  Round trip: in every reachable state, a Limit add_order at a price *)
(* that crosses no level of the opposite side, followed by cancel_order of *)
(* the identifier it returned, leaves the levels of both sides (aggregate, *)
(* count, queue) and the order index as they were.                         *)
(***************************************************************************)
CrossesNothing(b, price, side) ==
    \A p \in DOMAIN LevelsOf(b, OppositeSide(side)) : ~Crosses(side, price, p)

SameBook(b1, b2) ==
    /\ b1.orders_ = b2.orders_
    /\ b1.bid_levels_ = b2.bid_levels_
    /\ b1.ask_levels_ = b2.ask_levels_

C22_AddCancelRoundTrip ==
    \A price \in Prices, quantity \in Quantities, side \in Side :
        CrossesNothing(Book, price, side)
        => \A b1 \in {add_order(Book, next_order_id, price, quantity, side, "LIMIT")} :
              SameBook(cancel_order(b1, next_order_id), Book)

(***************************************************************************)
(* C23  Two Limit submissions that cross neither the book nor each other:  *)
(* when their prices or sides differ, either order of submission gives the *)
(* same levels with the same aggregates and counts; when price and side    *)
(* are the same, the one submitted first is ahead of the other in the      *)
(* level's queue.                                                          *)
(***************************************************************************)
LevelSummary(levels) ==
    [p \in DOMAIN levels |->
        [total_quantity |-> levels[p].total_quantity,
         order_count |-> levels[p].order_count]]

BookSummary(b) ==
    [bids |-> LevelSummary(b.bid_levels_), asks |-> LevelSummary(b.ask_levels_)]

\* Both submissions, x first
AddBoth(b, id, x, y) ==
    Val({ add_order(b1, id + 1, y.price, y.quantity, y.side, "LIMIT")
          : b1 \in {add_order(b, id, x.price, x.quantity, x.side, "LIMIT")} })

Position(chain, i) == Min({k \in 1..Len(chain) : chain[k] = i})

\* i is directly ahead of j in the queue of lvl, and j is its last order
AheadOf(b, lvl, i, j) ==
    /\ b.orders_[i].next = j
    /\ b.orders_[j].prev = i
    /\ lvl.tail = j
    /\ LET chain == Chain(b.orders_, lvl.head, Cardinality(DOMAIN b.orders_))
       IN  InChain(j, chain)
           => InChain(i, chain) /\ Position(chain, i) < Position(chain, j)

Submissions == [price : Prices, quantity : Quantities, side : Side]

C23_NonCrossingSubmissionsCommute ==
    \A x, y \in Submissions :
        (/\ CrossesNothing(Book, x.price, x.side)
         /\ CrossesNothing(Book, y.price, y.side)
         /\ x.side # y.side => ~Crosses(x.side, x.price, y.price))
        => \A xy \in {AddBoth(Book, next_order_id, x, y)} :
              IF x.price = y.price /\ x.side = y.side
              THEN AheadOf(xy, LevelsOf(xy, x.side)[x.price],
                           next_order_id, next_order_id + 1)
              ELSE BookSummary(xy) = BookSummary(AddBoth(Book, next_order_id, y, x))

\* A book with a resting bid below a resting ask, between which two further
\* orders can rest in either order
C23_Witness ==
    /\ \E p \in DOMAIN bid_levels_ : bid_levels_[p].head # NULL /\ p < MaxPrice
    /\ \E p \in DOMAIN ask_levels_ : ask_levels_[p].head # NULL
    /\ C3_NeverCrossed

(***************************************************************************)
(* C24  Equality crosses: a Limit buy priced at the best ask, or a Limit   *)
(* sell priced at the best bid, trades at that price at least once instead *)
(* of resting.                                                             *)
(***************************************************************************)
C24_EqualityCrossesStep ==
    (/\ last'.op = "add_order"
     /\ last'.type = "LIMIT"
     /\ last'.quantity > 0
     /\ get_best(Book, OppositeSide(last'.side)) = {last'.price})
    => \E k \in 1..Len(last'.events) :
          /\ IsTrade(last'.events[k])
          /\ last'.events[k].aggressor = last'.id
          /\ last'.events[k].trade.price = last'.price

C24_EqualityCrosses == [][C24_EqualityCrossesStep]_vars

(***************************************************************************)
(* C25  Identifiers only grow: every add_order, also the one inside        *)
(* modify_order and one whose order ends Rejected or Cancelled, returns    *)
(* the counter's value, which is above every identifier in the index and   *)
(* above the one returned before, and moves the counter past it; no other  *)
(* call moves the counter.                                                 *)
(***************************************************************************)
C25_IdentifiersMonotonicStep ==
    /\ next_order_id' >= next_order_id
    /\ IF last'.op = "add_order" \/ (last'.op = "modify_order" /\ last'.ret)
       THEN /\ last'.id = next_order_id
            /\ next_order_id' = last'.id + 1
            /\ \A i \in (DOMAIN orders_ \cup DOMAIN last'.released) \ {last'.id} :
                  i < last'.id
       ELSE next_order_id' = next_order_id
    /\ \A i \in DOMAIN orders_' : i < next_order_id'

C25_IdentifiersMonotonic == [][C25_IdentifiersMonotonicStep]_vars

\* modify_order resubmitted an order that was cancelled within the call: its
\* identifier is the third of the session and is not in the index
C25_Witness ==
    /\ last.op = "modify_order"
    /\ last.ret
    /\ last.id = 3
    /\ last.id \in DOMAIN last.released
    /\ next_order_id = 4

(***************************************************************************)
(* C26  An add_order, also the one inside modify_order, calls the market-  *)
(* state subscribers once, as the last thing it does: the only "state"     *)
(* event of the call is its last event, after every trade and after the    *)
(* update of the resting order, and it carries the state of the book the   *)
(* call leaves, never one from inside the matching loop.                   *)
(***************************************************************************)
IsState(e) == e.kind = "state"

C26_StateAfterMatchingStep ==
    (last'.op = "add_order" \/ (last'.op = "modify_order" /\ last'.ret))
    => /\ Len(last'.events) > 0
       /\ \A k \in 1..Len(last'.events) :
             IsState(last'.events[k]) <=> k = Len(last'.events)
       /\ last'.events[Len(last'.events)].state = get_market_state(Book')

C26_StateAfterMatching == [][C26_StateAfterMatchingStep]_vars

\* a Limit order traded, rested with what was left, and the state delivered
\* at the end shows its level
C26_Witness ==
    /\ last.op = "add_order"
    /\ IsResting(last.id)
    /\ \E k \in 1..Len(last.events) :
          IsTrade(last.events[k]) /\ last.events[k].aggressor = last.id
    /\ \E s \in {last.events[Len(last.events)].state} :
          \E d \in 1..Len(IF last.side = "BUY" THEN s.bid_levels ELSE s.ask_levels) :
             (IF last.side = "BUY" THEN s.bid_levels ELSE s.ask_levels)[d].price
                 = last.price

(***************************************************************************)
(* Subscribers callbacks of each kind are registered, numbered in the      *)
(* order of their registration (push_back).  A notification calls them in  *)
(* the order of the vector, so the calls of an operation are its events,   *)
(* each one delivered to 1, 2, ... in turn.                                *)
(***************************************************************************)
Deliver(e) == [c \in 1..Subscribers |-> [callback |-> c, event |-> e]]

RECURSIVE Calls(_)
Calls(events) ==
    IF events = <<>> THEN <<>> ELSE Deliver(Head(events)) \o Calls(Tail(events))

\* What callback c was called with, in the order of the calls
Observed(calls, c) ==
    LET To(x) == x.callback = c
        mine == SelectSeq(calls, To)
    IN  [k \in 1..Len(mine) |-> mine[k].event]

(***************************************************************************)
(* C27  The trades of one call are emitted in the order of their           *)
(* execution (each trade found the aggressor filled by the trades before   *)
(* it) and every trade subscriber is called with the same sequence; a      *)
(* matching step calls the trade subscribers, then the order-update        *)
(* subscribers with the passive order, then with the aggressor, each time  *)
(* in the order of registration.                                           *)
(***************************************************************************)
C27_NotificationOrderStep ==
    \E ev \in {last'.events} : \E calls \in {Calls(ev)} :
        /\ \A k \in 1..Len(ev) :
              IsTrade(ev[k]) =>
                /\ k + 2 <= Len(ev)
                /\ IsOrderUpdate(ev[k + 1])
                /\ ev[k + 1].order.id = ev[k].passive
                /\ IsOrderUpdate(ev[k + 2])
                /\ ev[k + 2].order.id = ev[k].aggressor
                /\ ev[k].aggressor = last'.id
                /\ \A d \in 1..Subscribers :
                      /\ calls[(k - 1) * Subscribers + d]
                            = [callback |-> d, event |-> ev[k]]
                      /\ calls[k * Subscribers + d]
                            = [callback |-> d, event |-> ev[k + 1]]
                      /\ calls[(k + 1) * Subscribers + d]
                            = [callback |-> d, event |-> ev[k + 2]]
        /\ \A j, k \in 1..Len(Trades(ev)) :
              j < k =>
                Trades(ev)[k].before[last'.id].filled_quantity
                  >= Trades(ev)[j].before[last'.id].filled_quantity
                       + Trades(ev)[j].trade.quantity
        /\ \A c \in 1..Subscribers :
              /\ Trades(Observed(calls, c)) = Trades(ev)
              /\ SelectSeq(Observed(calls, c), IsOrderUpdate)
                    = SelectSeq(ev, IsOrderUpdate)

C27_NotificationOrder == [][C27_NotificationOrderStep]_vars

\* one add_order traded twice
C27_Witness ==
    /\ last.op = "add_order"
    /\ Len(Trades(last.events)) = 2
    /\ Trades(last.events)[1].passive # Trades(last.events)[2].passive

(***************************************************************************)
(* C28  The calls on the OrderBook form a total order: at no time are the  *)
(* market thread and the thread of the UI both inside a call on the book.  *)
(***************************************************************************)
C28_EngineCallsSerialised ==
    ~(inside["market"] # Outside /\ inside["ui"] # Outside)

(***************************************************************************)
(* C29  In every market state delivered, the flow imbalance is the signed  *)
(* ratio (bid_quantity - ask_quantity) / (bid_quantity + ask_quantity) of  *)
(* the quantities at the top of the book: between -1 and 1, negative when  *)
(* the ask quantity is the larger, positive when the bid quantity is, and  *)
(* 0 when both are 0.                                                      *)
(***************************************************************************)
C29_FlowImbalanceSigned ==
    \A k \in 1..Len(last.events) :
        IsState(last.events[k]) =>
            \E s \in {last.events[k].state} : \E f \in {s.order_flow_imbalance} :
                /\ f.den > 0
                /\ -f.den <= f.num /\ f.num <= f.den
                /\ f.num * (s.bid_quantity + s.ask_quantity)
                      = (s.bid_quantity - s.ask_quantity) * f.den
                /\ s.ask_quantity > s.bid_quantity => f.num < 0
                /\ s.bid_quantity > s.ask_quantity => f.num > 0
                /\ (s.bid_quantity = 0 /\ s.ask_quantity = 0) => f.num = 0

(***************************************************************************)
(* C30  get_mid_price has no value exactly when a side of the book has no  *)
(* level; otherwise its value is the floor of (best bid + best ask) / 2,   *)
(* the lower of the two midpoints when the sum is odd, also when the sum   *)
(* is negative.                                                            *)
(***************************************************************************)
C30_MidPriceFloor ==
    /\ get_mid_price(Book) = {}
          <=> (DOMAIN bid_levels_ = {} \/ DOMAIN ask_levels_ = {})
    /\ (DOMAIN bid_levels_ # {} /\ DOMAIN ask_levels_ # {})
          => get_mid_price(Book)
                = {(Max(DOMAIN bid_levels_) + Min(DOMAIN ask_levels_)) \div 2}

(***************************************************************************)
(* C31  The running totals are the sums over every trade of the session:   *)
(* each call adds to cumulative_volume_ the quantities of its trades and   *)
(* to cumulative_pq_ their price * quantity, the price taken as a signed   *)
(* integer; while the window has not yet dropped a trade the totals are    *)
(* the sums over the window; the VWAP delivered is their quotient, and 0   *)
(* when nothing has traded.                                                *)
(***************************************************************************)
RECURSIVE TradedValue(_)
TradedValue(trades) ==
    IF trades = <<>> THEN 0
    ELSE Head(trades).trade.price * Head(trades).trade.quantity
            + TradedValue(Tail(trades))

RECURSIVE SumOf(_)
SumOf(seq) == IF seq = <<>> THEN 0 ELSE Head(seq) + SumOf(Tail(seq))

RECURSIVE DotProduct(_, _)
DotProduct(ps, qs) ==
    IF ps = <<>> \/ qs = <<>> THEN 0
    ELSE Head(ps) * Head(qs) + DotProduct(Tail(ps), Tail(qs))

C31_RunningTotalsStep ==
    /\ cumulative_volume_' = cumulative_volume_ + TradedQuantity(Trades(last'.events))
    /\ cumulative_pq_' = cumulative_pq_ + TradedValue(Trades(last'.events))
    /\ Len(recent_trade_prices_') < MAX_RECENT_TRADES
          => /\ cumulative_volume_' = SumOf(recent_trade_quantities_')
             /\ cumulative_pq_' = DotProduct(recent_trade_prices_',
                                             recent_trade_quantities_')
    /\ \A k \in 1..Len(last'.events) :
          IsState(last'.events[k]) =>
             last'.events[k].state.vwap =
                IF recent_trade_prices_' = <<>> THEN Ratio(0, 1)
                ELSE Ratio(DotProduct(recent_trade_prices_', recent_trade_quantities_'),
                           SumOf(recent_trade_quantities_'))

C31_RunningTotals == [][C31_RunningTotalsStep]_vars

(***************************************************************************)
(* C32  After n trades the two sequences of the window have the length     *)
(* min(n, MAX_RECENT_TRADES) and hold, position by position and in the     *)
(* order of emission, the price and the quantity of the last               *)
(* min(n, MAX_RECENT_TRADES) trades; the market state's last trade price   *)
(* and quantity are those of the last trade, or 0 when n = 0.              *)
(***************************************************************************)
C32_RollingWindow ==
    \E session \in {Trades(last.events)} :
    \E n \in {Len(session)} :
    \E m \in {MinQ(n, MAX_RECENT_TRADES)} :
        /\ Len(recent_trade_prices_) = m
        /\ Len(recent_trade_quantities_) = m
        /\ \A i \in 1..m :
              /\ recent_trade_prices_[i] = session[n - m + i].trade.price
              /\ recent_trade_quantities_[i] = session[n - m + i].trade.quantity
        /\ \E s \in {get_market_state(Book)} :
              /\ s.last_trade_price = IF n = 0 THEN 0 ELSE session[n].trade.price
              /\ s.last_trade_quantity = IF n = 0 THEN 0
                                                  ELSE session[n].trade.quantity

\* more trades than the window holds, and the oldest trade differs from the one
\* that is now the first of the window
C32_Witness ==
    /\ last.op = "update_market_statistics"
    /\ Len(last.events) > MAX_RECENT_TRADES
    /\ last.events[1].trade.price # recent_trade_prices_[1]
    /\ last.events[1].trade.quantity # recent_trade_quantities_[1]

(***************************************************************************)
(* C33  In every market state delivered, the depth list of a side has      *)
(* min(DEPTH_LEVELS, number of levels of the side) entries, in the order   *)
(* of price priority (bids strictly falling, asks strictly rising); its    *)
(* first entry is the best price and the top quantity of the state, and    *)
(* each quantity is get_volume_at_price of its price and side.             *)
(***************************************************************************)
DepthListOk(s, side) ==
    \E list \in {IF side = "BUY" THEN s.bid_levels ELSE s.ask_levels} :
        /\ Len(list) = MinQ(DEPTH_LEVELS, Cardinality(DOMAIN LevelsOf(Book, side)))
        /\ \A i \in 1..(Len(list) - 1) :
              IF side = "BUY" THEN list[i].price > list[i + 1].price
                              ELSE list[i].price < list[i + 1].price
        /\ list # <<>> =>
              /\ list[1].price = (IF side = "BUY" THEN s.best_bid ELSE s.best_ask)
              /\ list[1].quantity = (IF side = "BUY" THEN s.bid_quantity
                                                     ELSE s.ask_quantity)
        /\ \A i \in 1..Len(list) :
              list[i].quantity = get_volume_at_price(Book, list[i].price, side)

C33_DepthLists ==
    \A k \in 1..Len(last.events) :
        IsState(last.events[k]) =>
            \A side \in Side : DepthListOk(last.events[k].state, side)

\* a state delivered when the bid side has more levels than the list holds
C33_Witness ==
    /\ last.op = "add_order"
    /\ Cardinality(DOMAIN bid_levels_) > DEPTH_LEVELS
    /\ Len(last.events[Len(last.events)].state.bid_levels) = DEPTH_LEVELS
    /\ Len(last.events[Len(last.events)].state.ask_levels) = 1

(***************************************************************************)
(* C34  When cancel_order removes the last resting order of a side, the    *)
(* best price of that side is then empty, the cancelled identifier is not  *)
(* in the index, get_spread has no value and the spread of the market      *)
(* state is no number either.                                              *)
(***************************************************************************)
C34_CancelLastOfSideStep ==
    (/\ last'.op = "cancel_order"
     /\ IsResting(last'.target)
     /\ \A i \in DOMAIN orders_ \ {last'.target} :
           ~(IsResting(i) /\ orders_[i].side = orders_[last'.target].side))
    => /\ get_best(Book', orders_[last'.target].side) = {}
       /\ last'.target \notin DOMAIN orders_'
       /\ get_spread(Book') = {}
       /\ get_market_state(Book').spread \notin Int

C34_CancelLastOfSide == [][C34_CancelLastOfSideStep]_vars

(***************************************************************************)
(* C35  The pool is safe: the free list and the cells of the live objects  *)
(* are disjoint and together are all the slots of all the blocks, no two   *)
(* live objects share a cell, allocate returns a cell that was not live,   *)
(* a live object keeps its cell, and an allocate that finds the free list  *)
(* empty adds one block of BlockSize slots and returns a cell of it.       *)
(***************************************************************************)
PoolPartitioned(p) ==
    \E free \in {FreeChain(p, p.free_list_, p.blocks * BlockSize + 1)} :
        /\ \A i, j \in 1..Len(free) : i # j => free[i] # free[j]
        /\ {free[i] : i \in 1..Len(free)} \cap LiveSlots(p) = {}
        /\ {free[i] : i \in 1..Len(free)} \cup LiveSlots(p) = Slots(p)
        /\ \A o1, o2 \in DOMAIN p.live : o1 # o2 => p.live[o1] # p.live[o2]

C35_ArenaSafeStep ==
    /\ PoolPartitioned(order_pool_')
    /\ \A o \in DOMAIN order_pool_.live \cap DOMAIN order_pool_'.live :
          order_pool_'.live[o] = order_pool_.live[o]
    /\ last'.op = "allocate" =>
          /\ last'.id \in Slots(order_pool_')
          /\ last'.id \notin LiveSlots(order_pool_)
          /\ order_pool_.free_list_ # NULL =>
                order_pool_'.blocks = order_pool_.blocks
          /\ order_pool_.free_list_ = NULL =>
                /\ order_pool_'.blocks = order_pool_.blocks + 1
                /\ last'.id \in Slots(order_pool_') \ Slots(order_pool_)
                /\ Len(FreeChain(order_pool_', order_pool_'.free_list_,
                                 order_pool_'.blocks * BlockSize + 1))
                      = BlockSize - 1
    /\ last'.op = "deallocate" => order_pool_'.blocks = order_pool_.blocks

C35_ArenaSafe == [][C35_ArenaSafeStep]_vars

\* after a second block was added, allocate hands out again a cell of the
\* first block that had been given back
C35_Witness ==
    /\ last.op = "allocate"
    /\ order_pool_.blocks = 2
    /\ last.id <= BlockSize
    /\ Cardinality(DOMAIN order_pool_.live) = 3

(***************************************************************************)
(* C36  The matching loop ends: every iteration that does not leave the    *)
(* loop executes a trade of quantity at least 1 that lowers the remaining  *)
(* quantity of the incoming order by that quantity, and a call executes    *)
(* no more trades than orders were linked on the opposite side when it     *)
(* began, so the loop runs at most that many iterations plus one.          *)
(***************************************************************************)
RECURSIVE LinkedCount(_)
LinkedCount(levels) ==
    IF DOMAIN levels = {} THEN 0
    ELSE LET price == Min(DOMAIN levels)
         IN  Len(Linked(levels[price])) + LinkedCount(Erase(levels, price))

C36_MatchingTerminatesStep ==
    (last'.op = "add_order" \/ (last'.op = "modify_order" /\ last'.ret))
    => \E ev \in {last'.events} :
          /\ \A k \in 1..Len(ev) :
                IsTrade(ev[k]) =>
                   /\ ev[k].trade.quantity >= 1
                   /\ ev[k].aggressor = last'.id
                   /\ k + 2 <= Len(ev)
                   /\ IsOrderUpdate(ev[k + 2])
                   /\ ev[k + 2].order.id = last'.id
                   /\ remaining_quantity(ev[k + 2].order)
                         = remaining_quantity(ev[k].before[last'.id])
                              - ev[k].trade.quantity
                   /\ remaining_quantity(ev[k + 2].order) >= 0
          /\ Len(Trades(ev))
                <= LinkedCount(LevelsOf(Book, OppositeSide(last'.side)))

C36_MatchingTerminates == [][C36_MatchingTerminatesStep]_vars

\* a Limit order of quantity 2 was filled by two trades at two prices
C36_Witness ==
    /\ last.op = "add_order"
    /\ last.type = "LIMIT"
    /\ Len(Trades(last.events)) = 2
    /\ Trades(last.events)[1].trade.price # Trades(last.events)[2].trade.price
    /\ orders_[last.id].status = "FILLED"

(***************************************************************************)
(* C37  cancel_order on an identifier that is in the index but whose order *)
(* is linked in no level creates no level and changes no level: both       *)
(* sides of the book are as they were.                                     *)
(***************************************************************************)
C37_CancelUnlinkedFrameStep ==
    (/\ last'.op = "cancel_order"
     /\ last'.target \in DOMAIN orders_
     /\ ~IsResting(last'.target))
    => /\ bid_levels_' = bid_levels_
       /\ ask_levels_' = ask_levels_

C37_CancelUnlinkedFrame == [][C37_CancelUnlinkedFrameStep]_vars

(***************************************************************************)
(* C38  A resting order that a trade fills in part keeps its place: after  *)
(* the call it is still the head of its level, only its filled quantity    *)
(* and status and the level's total quantity have changed, and as long as  *)
(* it is in the index with quantity left no order that came to rest after  *)
(* it at its price is the resting order of a trade.                        *)
(***************************************************************************)
KeepsOrder(before, after, quantity) ==
    after = [before EXCEPT
                !.filled_quantity = before.filled_quantity + quantity,
                !.status = "PARTIALLY_FILLED"]

\* the level of a call's only trade, before and after the call
KeepsLevel(lvl0, lvl1, quantity) ==
    lvl1 = [lvl0 EXCEPT
               !.total_quantity = (lvl0.total_quantity - quantity) % QuantityModulus]

C38_PartialFillKeepsPlaceStep ==
    \A k \in 1..Len(last'.events) :
        \E e \in {last'.events[k]} :
            IsTrade(e) =>
                /\ \A j \in DOMAIN e.before :
                      (/\ e.before[j].status = "PARTIALLY_FILLED"
                       /\ e.before[j].type = "LIMIT"
                       /\ e.before[j].side = e.before[e.passive].side
                       /\ e.before[j].price = e.before[e.passive].price
                       /\ remaining_quantity(e.before[j]) > 0)
                      => j >= e.passive
                /\ (/\ last'.op = "add_order"
                    /\ e.trade.quantity < remaining_quantity(e.before[e.passive]))
                   => \E p \in {e.before[e.passive]} :
                         /\ e.passive \in DOMAIN orders_'
                         /\ KeepsOrder(p, orders_'[e.passive], e.trade.quantity)
                         /\ p.price \in DOMAIN LevelsOf(Book', p.side)
                         /\ LevelsOf(Book', p.side)[p.price].head = e.passive
                         /\ Len(Trades(last'.events)) = 1 =>
                               /\ p.price \in DOMAIN LevelsOf(Book, p.side)
                               /\ KeepsLevel(LevelsOf(Book, p.side)[p.price],
                                             LevelsOf(Book', p.side)[p.price],
                                             e.trade.quantity)

C38_PartialFillKeepsPlace == [][C38_PartialFillKeepsPlaceStep]_vars

(***************************************************************************)
(* C39  An add_order changes, on the opposite side, only levels whose      *)
(* price crosses the price of the incoming order and, on its own side,     *)
(* only the level at its own price and only when the order comes to rest;  *)
(* every other level of both sides is as it was.  A resting order that     *)
(* took part in no trade keeps its identifier, price, quantities, side,    *)
(* type and status, and outside the levels that changed it keeps its       *)
(* links too.                                                              *)
(***************************************************************************)
SameLevel(b1, b2, side, price) ==
    /\ price \in DOMAIN LevelsOf(b1, side) <=> price \in DOMAIN LevelsOf(b2, side)
    /\ price \in DOMAIN LevelsOf(b1, side)
          => LevelsOf(b1, side)[price] = LevelsOf(b2, side)[price]

RestsIn(b, id) ==
    /\ id \in DOMAIN b.orders_
    /\ b.orders_[id].price \in DOMAIN LevelsOf(b, b.orders_[id].side)
    /\ InChain(id, Chain(b.orders_,
                         LevelsOf(b, b.orders_[id].side)[b.orders_[id].price].head,
                         Cardinality(DOMAIN b.orders_)))

\* the condition under which add_order links the order into its own side
Rested(b, id, type) ==
    /\ type = "LIMIT"
    /\ id \in DOMAIN b.orders_
    /\ ~is_fully_filled(b.orders_[id])
    /\ b.orders_[id].status \notin {"CANCELLED", "REJECTED"}

SameOrder(o1, o2) ==
    [o1 EXCEPT !.next = NULL, !.prev = NULL] = [o2 EXCEPT !.next = NULL, !.prev = NULL]

C39_AddOrderFrameStep ==
    last'.op = "add_order"
    => \E own \in {last'.side} : \E opp \in {OppositeSide(last'.side)} :
       \E limit \in {MarketPrice(Book, last'.price, last'.side, last'.type)} :
          /\ \A price \in DOMAIN LevelsOf(Book, own) \cup DOMAIN LevelsOf(Book', own) :
                (price # last'.price \/ ~Rested(Book', last'.id, last'.type))
                   => SameLevel(Book, Book', own, price)
          /\ \A price \in DOMAIN LevelsOf(Book, opp) \cup DOMAIN LevelsOf(Book', opp) :
                ~Crosses(own, limit, price) => SameLevel(Book, Book', opp, price)
          /\ \A i \in DOMAIN orders_ :
                (/\ RestsIn(Book, i)
                 /\ \A k \in 1..Len(last'.events) :
                       IsTrade(last'.events[k]) => last'.events[k].passive # i)
                => /\ i \in DOMAIN orders_'
                   /\ SameOrder(orders_[i], orders_'[i])
                   /\ SameLevel(Book, Book', orders_[i].side, orders_[i].price)
                         => orders_'[i] = orders_[i]

AgentPrices == 1..AgentMaxPrice
AgentQuantities == 1..AgentMaxQty

Action == {"HOLD", "BUY_MARKET", "SELL_MARKET", "BUY_LIMIT_AT_BID",
           "SELL_LIMIT_AT_ASK", "BUY_LIMIT_AGGRESSIVE", "SELL_LIMIT_AGGRESSIVE",
           "CANCEL_ALL"}

\* update_position: the first held identifier that is a party of the trade
\* decides whether the agent bought or sold
update_position(a, trade) ==
    LET hits == {k \in 1..Len(a.active_orders_) :
                    \/ a.active_orders_[k] = trade.buy_order_id
                    \/ a.active_orders_[k] = trade.sell_order_id}
    IN  IF hits = {}
        THEN a
        ELSE [a EXCEPT
                !.total_trades_ = @ + 1,
                !.total_volume_ = @ + trade.quantity,
                !.position_.quantity =
                    IF a.active_orders_[Min(hits)] = trade.buy_order_id
                    THEN @ + trade.quantity
                    ELSE @ - trade.quantity]

\* the trade callback of the constructor, run for the trades of one call in
\* the order in which the book announced them
RECURSIVE TradeCallbacks(_, _)
TradeCallbacks(a, events) ==
    IF events = <<>>
    THEN a
    ELSE TradeCallbacks(IF IsTrade(Head(events))
                        THEN update_position(a, Head(events).trade)
                        ELSE a,
                        Tail(events))

\* execute_action, the switch: the order the action submits, if any
Submission(b, action) ==
    LET best_bid == get_best(b, "BUY")
        best_ask == get_best(b, "SELL")
    IN  CASE action = "BUY_MARKET" ->
                {[price |-> p, side |-> "BUY", type |-> "MARKET"] : p \in best_ask}
          [] action = "SELL_MARKET" ->
                {[price |-> p, side |-> "SELL", type |-> "MARKET"] : p \in best_bid}
          [] action = "BUY_LIMIT_AT_BID" ->
                {[price |-> p, side |-> "BUY", type |-> "LIMIT"] : p \in best_bid}
          [] action = "SELL_LIMIT_AT_ASK" ->
                {[price |-> p, side |-> "SELL", type |-> "LIMIT"] : p \in best_ask}
          [] action = "BUY_LIMIT_AGGRESSIVE" ->
                {[price |-> (p + q) \div 2, side |-> "BUY", type |-> "LIMIT"]
                    : p \in best_bid, q \in best_ask}
          [] action = "SELL_LIMIT_AGGRESSIVE" ->
                {[price |-> (p + q) \div 2, side |-> "SELL", type |-> "LIMIT"]
                    : p \in best_bid, q \in best_ask}
          [] OTHER -> {}

\* CANCEL_ALL: cancel_order for every held identifier, in order
RECURSIVE CancelAll(_, _)
CancelAll(b, ids) ==
    IF ids = <<>> THEN b ELSE CancelAll(cancel_order(b, Head(ids)), Tail(ids))

\* "Only cleanup every 10 actions"
Cleanup(a, index) ==
    LET count == (a.action_count_ + 1) % CleanupPeriod
        Kept(id) == /\ id \in DOMAIN index
                    /\ index[id].status # "FILLED"
                    /\ index[id].status # "CANCELLED"
    IN  [a EXCEPT
            !.action_count_ = count,
            !.active_orders_ = IF count = 0 THEN SelectSeq(@, Kept) ELSE @]

\* execute_action: the book and the agent after the action, and the
\* identifier add_order returned
execute_action(b, a, id, action, quantity) ==
    IF action = "CANCEL_ALL"
    THEN Val({ [book |-> b1, id |-> NULL,
                agent |-> Cleanup([TradeCallbacks(a, b1.events)
                                      EXCEPT !.active_orders_ = <<>>], b1.orders_)]
               : b1 \in {CancelAll(b, a.active_orders_)} })
    ELSE IF Submission(b, action) = {}
    THEN [book |-> b, id |-> NULL, agent |-> Cleanup(a, b.orders_)]
    ELSE Val({ Val({ [book |-> b1, id |-> id,
                      agent |-> Cleanup([TradeCallbacks(a, b1.events) EXCEPT
                                            !.active_orders_ = Append(@, id),
                                            !.submitted = @ \cup {id}], b1.orders_)]
                     : b1 \in {add_order(b, id, s.price, quantity, s.side, s.type)} })
               : s \in Submission(b, action) })

AgentExecuteAction ==
    \E action \in Action, quantity \in AgentQuantities :
        /\ Submission(Book, action) # {} => next_order_id <= AgentOrders
        /\ \E r \in {execute_action(Book, agent, next_order_id, action, quantity)} :
              /\ Store(r.book)
              /\ agent' = r.agent
              /\ last' = [NoCall EXCEPT
                           !.op = "execute_action", !.id = r.id,
                           !.quantity = quantity, !.ret = TRUE,
                           !.events = r.book.events, !.released = r.book.released]
              /\ next_order_id' = IF r.id = NULL THEN next_order_id
                                                 ELSE next_order_id + 1
        /\ UNCHANGED <<inside, order_pool_>>

\* the other participants (main.cpp, terminal_ui.cpp) submit Limit and Market
\* orders
MarketTypes == {"LIMIT", "MARKET"}

\* an order of another participant: the agent's callback runs for its trades
AgentMarketAddOrder ==
    \E price \in AgentPrices, quantity \in AgentQuantities,
       side \in Side, type \in MarketTypes :
        /\ next_order_id <= AgentOrders
        /\ \E b \in {add_order(Book, next_order_id, price, quantity, side, type)} :
              /\ Store(b)
              /\ agent' = TradeCallbacks(agent, b.events)
              /\ last' = [NoCall EXCEPT
                           !.op = "add_order", !.id = next_order_id,
                           !.price = price, !.quantity = quantity,
                           !.side = side, !.type = type, !.ret = TRUE,
                           !.events = b.events, !.released = b.released]
        /\ next_order_id' = next_order_id + 1
        /\ UNCHANGED <<inside, order_pool_>>

NextAgent == AgentExecuteAction \/ AgentMarketAddOrder

SpecAgent == Init /\ [][NextAgent]_vars

(***************************************************************************)
(* C40  Every trade in which an order the agent submitted takes part is    *)
(* counted by the agent's trade callback: a call raises total_trades_ by   *)
(* the number of its trades that have an order of the agent as buyer or    *)
(* seller, the order the agent submits in this very call included.         *)
(***************************************************************************)
OfAgent(a, events) ==
    {k \in 1..Len(events) :
        /\ IsTrade(events[k])
        /\ \/ events[k].trade.buy_order_id \in a.submitted
           \/ events[k].trade.sell_order_id \in a.submitted}

C40_AgentTradesAttributedStep ==
    agent'.total_trades_ =
        agent.total_trades_ + Cardinality(OfAgent(agent', last'.events))

C40_AgentTradesAttributed == [][C40_AgentTradesAttributedStep]_vars

====
